---- MODULE Spec2Model ----
(***************************************************************************)
(* Governance decision core of the Librarian: the validation engine        *)
(* (src/validation/engine.py) and its five default rules                   *)
(* (src/validation/rules.py).                                              *)
(*                                                                         *)
(* Python strings whose characters matter (versions, paths) are tuples of  *)
(* one-character strings.  A frontmatter dict is a record: `keys` is the   *)
(* set of keys the dict holds, and one field per key whose value a rule    *)
(* reads.  A value field of a key that is not in `keys` is never read.     *)
(***************************************************************************)
EXTENDS Integers, Sequences, FiniteSets, TLC

\* ------------------------------------------------------------------ bounds
\* custom rules in the engine's list at one time (add_rule is unbounded)
MaxCustomRules == 1
\* length of the list a direct _determine_status call is given
MaxViolations == 4
\* records an AuditLogger holds (the log is unbounded)
MaxRecords == 2
\* the latest time the clock reaches
MaxClock == 1
\* length of the version strings drawn from VersionAlphabet
MaxVersionLen == 6

\* ------------------------------------------------------------ value types
\* models.Severity
Severity == {"critical", "high", "medium", "low"}

\* models.ValidationStatus
ValidationStatus == {"approved", "rejected", "escalated", "revision_required"}

\* models.Violation (rule, severity, and the message as a short code)
Violation(rule, severity, message) ==
    [rule |-> rule, severity |-> severity, message |-> message]

\* Python None where a string-valued field is read
None == "None"

\* a frontmatter `implements` value that is a YAML list: truthy, unhashable
ListValue == "['arch-001']"

Hashable(v) == v # ListValue

\* a value that is an int where a rule expects a string or a list: truthy,
\* with no .replace and not iterable
IntValue == <<"int">>

\* ---------------------------------------------------------------- strings
Digits == {"0", "1", "2", "3"}

WordChars == Digits \cup {"v", "r", "c", "a", "m", "d", "t", "x", "_"}

DigitValue(c) == CASE c = "0" -> 0 [] c = "1" -> 1 [] c = "2" -> 2 [] c = "3" -> 3

\* first index j >= i of s at which s[j] is not in cls (Len(s)+1 if none):
\* the end of a greedy `cls*` started at i
RECURSIVE RunEnd(_, _, _)
RunEnd(s, i, cls) ==
    IF i > Len(s) \/ s[i] \notin cls THEN i ELSE RunEnd(s, i + 1, cls)

\* index after `\d+\.\d+\.\d+` matched at the start of s, 0 if no match
SemVerCoreEnd(s) ==
    LET a == RunEnd(s, 1, Digits)
        b == RunEnd(s, a + 1, Digits)
        c == RunEnd(s, b + 1, Digits)
    IN  IF /\ a > 1 /\ a <= Len(s) /\ s[a] = "."
           /\ b > a + 1 /\ b <= Len(s) /\ s[b] = "."
           /\ c > b + 1
        THEN c ELSE 0

\* index after an optional `(<lead>[\w.]+)?` group matched at i
OptGroupEnd(s, i, lead) ==
    LET e == RunEnd(s, i + 1, WordChars \cup {"."})
    IN  IF i <= Len(s) /\ s[i] = lead /\ e > i + 1 THEN e ELSE i

\* str.split(sep)
RECURSIVE Split(_, _)
Split(s, sep) ==
    LET e == RunEnd(s, 1, {s[i] : i \in 1..Len(s)} \ {sep})
    IN  IF e > Len(s) THEN <<s>>
        ELSE <<SubSeq(s, 1, e - 1)>> \o Split(SubSeq(s, e + 1, Len(s)), sep)

Whitespace == {" ", "\n"}

\* str.strip(): without its leading and trailing whitespace
RECURSIVE Strip(_)
Strip(x) ==
    IF x = <<>> THEN x
    ELSE IF x[1] \in Whitespace THEN Strip(Tail(x))
    ELSE IF x[Len(x)] \in Whitespace THEN Strip(SubSeq(x, 1, Len(x) - 1))
    ELSE x

\* int(x) succeeds: x is, between whitespace, a non-empty run of digits
IsInt(x) == Strip(x) # <<>> /\ \A i \in 1..Len(Strip(x)) : Strip(x)[i] \in Digits

RECURSIVE DigitsToInt(_)
DigitsToInt(x) ==
    IF Len(x) = 1 THEN DigitValue(x[1])
    ELSE 10 * DigitsToInt(SubSeq(x, 1, Len(x) - 1)) + DigitValue(x[Len(x)])

\* int(x)
ToInt(x) == DigitsToInt(Strip(x))

\* `$` of re matches at index i of s: at the end, or before a final newline
AtEnd(s, i) == i = Len(s) + 1 \/ (i = Len(s) /\ s[i] = "\n")

\* str.replace(old, new) for one-character old and new
Replace(s, old, new) == [i \in 1..Len(s) |-> IF s[i] = old THEN new ELSE s[i]]

StartsWith(s, p) == Len(s) >= Len(p) /\ SubSeq(s, 1, Len(p)) = p

\* sub occurs in s at or after index from
Contains(s, sub, from) ==
    \E i \in from..(Len(s) - Len(sub) + 1) : SubSeq(s, i, i + Len(sub) - 1) = sub

\* -------------------------------------------------- requests and contexts
\* frontmatter.get(key) of a key the dict does not hold, for a value that is
\* a string of characters or a list
NoneSeq == <<"None">>

\* the keys of a frontmatter whose values no rule reads (only `in` tests)
PlainKeys == {"doc", "subsystem", "component", "status", "owners", "sprint", "assignee"}

\* a frontmatter dict; a None / NoneSeq argument leaves the key out
Frontmatter(plain, id, created_at, creator, version, implements, satisfies) ==
    [keys |-> plain \cup (IF id = None THEN {} ELSE {"id"})
                    \cup (IF created_at = None THEN {} ELSE {"created_at"})
                    \cup (IF creator = None THEN {} ELSE {"creator"})
                    \cup (IF version = NoneSeq THEN {} ELSE {"version"})
                    \cup (IF implements = None THEN {} ELSE {"implements"})
                    \cup (IF satisfies = NoneSeq THEN {} ELSE {"satisfies"}),
     id |-> id, created_at |-> created_at, creator |-> creator,
     version |-> version, implements |-> implements, satisfies |-> satisfies]

\* a request dict as AgentRequest.to_dict() gives it to the engine
Request(id, action, target_type, target_id, frontmatter, path) ==
    [id |-> id, action |-> action, target_type |-> target_type,
     target_id |-> target_id,
     content |-> [frontmatter |-> frontmatter, path |-> path]]

\* one entry of context["specs"]; a None / NoneSeq field is a key left out
SpecEntry(id, doc_type, status, version, implements) ==
    [id |-> id, doc_type |-> doc_type, status |-> status, version |-> version,
     implements |-> implements, created_at |-> None, creator |-> None]

V_1_0_0 == <<"1", ".", "0", ".", "0">>
V_1_2_0 == <<"1", ".", "2", ".", "0">>
V_2_1_3 == <<"2", ".", "1", ".", "3">>
V_1_0 == <<"1", ".", "0">>
V_1_0_0_rc1 == <<"1", ".", "0", ".", "0", "-", "r", "c", "1">>

PathDesignMd == <<"d", "o", "c", "s", "/", "d", "e", "s", "i", "g", "n", "/", "t", ".", "m", "d">>
PathDesignTxt == <<"d", "o", "c", "s", "/", "d", "e", "s", "i", "g", "n", "/", "t", ".", "t", "x", "t">>
PathDesignBackslash == <<"d", "o", "c", "s", "\\", "d", "e", "s", "i", "g", "n", "\\", "t", ".", "m", "d">>
PathElsewhere == <<"s", "r", "c", "/", "t", ".", "m", "d">>

\* ------------------------------------------------------------------ rules
\* what one call of rule.validate gives the engine: the list it returns, or
\* the exception it raises
Returned(violations) == [exc |-> FALSE, cancelled |-> FALSE, violations |-> violations]

Raised == [exc |-> TRUE, cancelled |-> FALSE, violations |-> <<>>]

\* Python truthiness of a string or list value (None and empty are falsy)
TruthySeq(v) == v # NoneSeq /\ v # <<>>

TruthyStr(v) == v # None /\ v # ""

\* frontmatter.get(key)
GetVersion(frontmatter) ==
    IF "version" \in frontmatter.keys THEN frontmatter.version ELSE NoneSeq

GetImplements(frontmatter) ==
    IF "implements" \in frontmatter.keys THEN frontmatter.implements ELSE None

\* frontmatter.get("satisfies", [])
GetSatisfies(frontmatter) ==
    IF "satisfies" \in frontmatter.keys THEN frontmatter.satisfies ELSE <<>>

\* REQUIRED_FRONTMATTER with a title required of a design
REQUIRED_FRONTMATTER_with_title ==
    [architecture |-> {"doc", "subsystem", "id", "version", "status", "owners"},
     design |-> {"doc", "component", "id", "version", "status", "owners", "title"},
     tasks |-> {"doc", "sprint", "status", "assignee"},
     requirement |-> {"doc", "id", "version", "status"}]

\* DocumentStandardsRule.REQUIRED_FRONTMATTER
REQUIRED_FRONTMATTER ==
    [architecture |-> {"doc", "subsystem", "id", "version", "status", "owners"},
     design |-> {"doc", "component", "id", "version", "status", "owners"},
     tasks |-> {"doc", "sprint", "status", "assignee"},
     requirement |-> {"doc", "id", "version", "status"}]

\* DocumentStandardsRule.EXPECTED_PATHS: the literal text that starts each
\* pattern; every pattern goes on with `.*\.md`
EXPECTED_PATHS ==
    [architecture |-> <<"d", "o", "c", "s", "/", "a", "r", "c", "h", "i", "t", "e", "c", "t", "u", "r", "e", "/">>,
     design |-> <<"d", "o", "c", "s", "/", "d", "e", "s", "i", "g", "n", "/">>,
     tasks |-> <<"d", "o", "c", "s", "/", "t", "a", "s", "k", "s", "/">>,
     requirement |-> <<"d", "o", "c", "s", "/", "r", "e", "q", "u", "i", "r", "e", "m", "e", "n", "t", "s", "/">>]

\* re.match(prefix + r".*\.md", path): anchored at the start only
PathMatches(prefix, path) ==
    /\ StartsWith(path, prefix)
    /\ Contains(path, <<".", "m", "d">>, Len(prefix) + 1)

\* DocumentStandardsRule._valid_version: ^\d+\.\d+\.\d+(-[\w.]+)?(\+[\w.]+)?$
DocumentStandardsRule_valid_version(version) ==
    LET c == SemVerCoreEnd(version)
    IN  /\ c > 0
        /\ AtEnd(version, OptGroupEnd(version, OptGroupEnd(version, c, "-"), "+"))

DocumentStandardsRule_validate(request, context) ==
    LET doc_type == request.target_type
        frontmatter == request.content.frontmatter
        path == request.content.path
        version == GetVersion(frontmatter)
        missing == IF doc_type \in DOMAIN REQUIRED_FRONTMATTER
                   THEN REQUIRED_FRONTMATTER[doc_type] \ frontmatter.keys
                   ELSE {}
        v_missing == IF missing # {}
                     THEN <<Violation("DOC-001", "high", "missing_fields")>>
                     ELSE <<>>
        v_version == IF TruthySeq(version) /\ ~DocumentStandardsRule_valid_version(version)
                     THEN <<Violation("DOC-001", "medium", "version_format")>>
                     ELSE <<>>
        v_path == IF /\ doc_type \in DOMAIN EXPECTED_PATHS
                     /\ path # <<>>
                     /\ ~PathMatches(EXPECTED_PATHS[doc_type], Replace(path, "\\", "/"))
                  THEN <<Violation("DOC-001", "medium", "location")>>
                  ELSE <<>>
    IN  \* path.replace: AttributeError for an int
        IF doc_type \in DOMAIN EXPECTED_PATHS /\ path = IntValue THEN Raised
        ELSE Returned(v_missing \o v_version \o v_path)

\* VersionCompatibilityRule._valid_semantic_version: ^\d+\.\d+\.\d+$
VersionCompatibilityRule_valid_semantic_version(version) ==
    LET c == SemVerCoreEnd(version)
    IN  c > 0 /\ AtEnd(version, c)

\* VersionCompatibilityRule._versions_compatible; a ValueError of int() or an
\* IndexError of parts[0], parts[1] is caught and gives False
VersionCompatibilityRule_versions_compatible(child_version, parent_version) ==
    LET child_parts == Split(child_version, ".")
        parent_parts == Split(parent_version, ".")
        ints(parts) == \A i \in 1..Len(parts) : IsInt(parts[i])
    IN  IF ~ints(child_parts) \/ ~ints(parent_parts) THEN FALSE
        ELSE IF ToInt(child_parts[1]) # ToInt(parent_parts[1]) THEN FALSE
        ELSE IF Len(child_parts) < 2 \/ Len(parent_parts) < 2 THEN FALSE
        ELSE IF ToInt(child_parts[2]) < ToInt(parent_parts[2]) THEN FALSE
        ELSE TRUE

\* VersionCompatibilityRule._get_parent_version (parent_id hashable)
VersionCompatibilityRule_get_parent_version(parent_id, context) ==
    IF parent_id \in DOMAIN context.current_specs
    THEN context.current_specs[parent_id].version
    ELSE NoneSeq

VersionCompatibilityRule_validate(request, context) ==
    LET frontmatter == request.content.frontmatter
        version == GetVersion(frontmatter)
        implements == GetImplements(frontmatter)
        checks_parent == TruthyStr(implements) /\ context.graph_query
        parent_version == VersionCompatibilityRule_get_parent_version(implements, context)
        v_format == IF ~VersionCompatibilityRule_valid_semantic_version(version)
                    THEN <<Violation("VER-001", "critical", "invalid_format")>>
                    ELSE <<>>
        v_parent == IF /\ checks_parent
                       /\ TruthySeq(parent_version)
                       /\ ~VersionCompatibilityRule_versions_compatible(version, parent_version)
                    THEN <<Violation("VER-001", "high", "incompatible_with_parent")>>
                    ELSE <<>>
    IN  IF ~TruthySeq(version)
        THEN Returned(<<Violation("VER-001", "high", "version_required")>>)
        \* `parent_id in specs` hashes parent_id: TypeError for a list
        ELSE IF checks_parent /\ ~Hashable(implements) THEN Raised
        ELSE Returned(v_format \o v_parent)

\* ArchitectureAlignmentRule._get_architecture is specs.get(arch_id): the
\* entry is found (and truthy) exactly when the id is a key
ArchitectureAlignmentRule_get_architecture(arch_id, context) ==
    IF arch_id \in DOMAIN context.current_specs
    THEN <<context.current_specs[arch_id]>>
    ELSE <<>>

\* ArchitectureAlignmentRule._has_circular_dependency (parent_id hashable):
\* specs.get(parent_id, {}).get("implements") is None for a parent that is
\* absent or has no implements, and is compared with request.get("id"),
\* itself None for a request without an id
ArchitectureAlignmentRule_has_circular_dependency(node_id, parent_id, context) ==
    LET parent_implements == IF parent_id \in DOMAIN context.current_specs
                             THEN context.current_specs[parent_id].implements
                             ELSE None
    IN  parent_implements = node_id

\* the design branch without the test of the architecture's status
ArchitectureAlignmentRule_design_branch_any_status(implements, context) ==
    LET arch == ArchitectureAlignmentRule_get_architecture(implements, context)
    IN  IF ~TruthyStr(implements)
        THEN <<Violation("ARCH-001", "critical", "design_must_reference")>>
        ELSE IF arch = <<>>
        THEN <<Violation("ARCH-001", "critical", "architecture_not_found")>>
        ELSE <<>>

\* the `if doc_type == "design"` branch of ArchitectureAlignmentRule.validate
\* (implements hashable)
ArchitectureAlignmentRule_design_branch(implements, context) ==
    LET arch == ArchitectureAlignmentRule_get_architecture(implements, context)
    IN  IF ~TruthyStr(implements)
        THEN <<Violation("ARCH-001", "critical", "design_must_reference")>>
        ELSE IF arch = <<>>
        THEN <<Violation("ARCH-001", "critical", "architecture_not_found")>>
        ELSE IF arch[1].status # "approved"
        THEN <<Violation("ARCH-001", "critical", "architecture_not_approved")>>
        ELSE <<>>

ArchitectureAlignmentRule_validate(request, context) ==
    LET frontmatter == request.content.frontmatter
        doc_type == request.target_type
        implements == GetImplements(frontmatter)
        v_design == IF doc_type = "design"
                    THEN ArchitectureAlignmentRule_design_branch(implements, context)
                    ELSE <<>>
        v_code == IF doc_type = "code" /\ ~TruthyStr(implements)
                  THEN <<Violation("ARCH-001", "high", "code_must_reference")>>
                  ELSE <<>>
        v_circular == IF /\ TruthyStr(implements)
                         /\ ArchitectureAlignmentRule_has_circular_dependency(
                                request.id, implements, context)
                      THEN <<Violation("ARCH-001", "critical", "circular_dependency")>>
                      ELSE <<>>
    IN  \* specs.get(implements) hashes implements: TypeError for a list, in
        \* the design branch or else in the circular-dependency check
        IF TruthyStr(implements) /\ ~Hashable(implements) THEN Raised
        ELSE Returned(v_design \o v_code \o v_circular)

\* the violations of the `for req_id in satisfies` loop
RECURSIVE RequirementCoverageRule_check_requirements(_, _)
RequirementCoverageRule_check_requirements(satisfies, context) ==
    IF satisfies = <<>> THEN <<>>
    ELSE LET req_id == Head(satisfies)
             v == IF req_id \notin DOMAIN context.current_specs
                  THEN <<Violation("REQ-001", "high", "requirement_not_found")>>
                  ELSE IF context.current_specs[req_id].status # "active"
                  THEN <<Violation("REQ-001", "medium", "requirement_not_active")>>
                  ELSE <<>>
         IN  v \o RequirementCoverageRule_check_requirements(Tail(satisfies), context)

\* the rule without its finding for a missing satisfies
RequirementCoverageRule_validate_silent(request, context) ==
    LET frontmatter == request.content.frontmatter
        satisfies == GetSatisfies(frontmatter)
        doc_type == request.target_type
    IN  IF doc_type \notin {"design", "code"} THEN Returned(<<>>)
        ELSE IF satisfies = <<>> THEN Returned(<<>>)
        ELSE IF satisfies = IntValue THEN Raised
        ELSE Returned(RequirementCoverageRule_check_requirements(satisfies, context))

RequirementCoverageRule_validate(request, context) ==
    LET frontmatter == request.content.frontmatter
        satisfies == GetSatisfies(frontmatter)
        doc_type == request.target_type
    IN  IF doc_type \notin {"design", "code"} THEN Returned(<<>>)
        ELSE IF satisfies = <<>>
        THEN Returned(<<Violation("REQ-001", "medium", "should_reference_requirements")>>)
        \* `for req_id in satisfies`: TypeError for an int
        ELSE IF satisfies = IntValue THEN Raised
        ELSE Returned(RequirementCoverageRule_check_requirements(satisfies, context))

\* the audit-class target types without agent_request
AUDIT_TARGET_TYPES_short == {"decision", "audit_event"}

\* the target types ConstitutionComplianceRule.validate refuses to delete
AUDIT_TARGET_TYPES == {"decision", "audit_event", "agent_request"}

\* ConstitutionComplianceRule.IMMUTABLE_PROPERTIES, in list order
IMMUTABLE_PROPERTIES == <<"id", "created_at", "creator">>

\* ConstitutionComplianceRule.PROTECTED_STATUSES
PROTECTED_STATUSES == {"approved", "published"}

\* ConstitutionComplianceRule._get_existing_spec (spec_id hashable): the
\* entry, or nothing for a falsy id or an id that is no key
ConstitutionComplianceRule_get_existing_spec(spec_id, context) ==
    IF TruthyStr(spec_id) /\ spec_id \in DOMAIN context.current_specs
    THEN <<context.current_specs[spec_id]>>
    ELSE <<>>

\* the violations of the `for prop in IMMUTABLE_PROPERTIES` loop
RECURSIVE ConstitutionComplianceRule_check_immutable(_, _, _)
ConstitutionComplianceRule_check_immutable(props, frontmatter, existing) ==
    IF props = <<>> THEN <<>>
    ELSE LET prop == Head(props)
             v == IF /\ prop \in frontmatter.keys
                     /\ existing[prop] # None
                     /\ frontmatter[prop] # existing[prop]
                  THEN <<Violation("CONST-001", "critical", "immutable_property")>>
                  ELSE <<>>
         IN  v \o ConstitutionComplianceRule_check_immutable(Tail(props), frontmatter, existing)

ConstitutionComplianceRule_validate(request, context) ==
    LET action == request.action
        target_type == request.target_type
        frontmatter == request.content.frontmatter
        target_id == request.target_id
        implements == GetImplements(frontmatter)
        existing == ConstitutionComplianceRule_get_existing_spec(target_id, context)
        parent == ConstitutionComplianceRule_get_existing_spec(implements, context)
        v_delete == IF /\ action = "delete"
                       /\ target_type \in AUDIT_TARGET_TYPES
                    THEN <<Violation("CONST-001", "critical", "audit_trail_immutable")>>
                    ELSE <<>>
        v_update == IF action = "update" /\ existing # <<>>
                    THEN ConstitutionComplianceRule_check_immutable(
                             IMMUTABLE_PROPERTIES, frontmatter, existing[1])
                         \o (IF existing[1].status \in PROTECTED_STATUSES
                             THEN <<Violation("CONST-001", "critical", "protected_status")>>
                             ELSE <<>>)
                    ELSE <<>>
        looks_up_parent == /\ action \in {"create", "update"}
                           /\ target_type \in {"architecture", "design"}
                           /\ TruthyStr(implements)
        v_hierarchy == IF /\ looks_up_parent
                          /\ parent # <<>>
                          /\ \/ target_type = "architecture"
                                /\ parent[1].doc_type \in {"design", "code"}
                             \/ target_type = "design"
                                /\ parent[1].doc_type = "code"
                       THEN <<Violation("CONST-001", "critical", "hierarchy")>>
                       ELSE <<>>
    IN  \* specs.get(implements) hashes implements: TypeError for a list; the
        \* violations appended before the lookup are lost with the call
        IF looks_up_parent /\ ~Hashable(implements) THEN Raised
        ELSE Returned(v_delete \o v_update \o v_hierarchy)

\* ----------------------------------------------------------------- engine
VARIABLES
    rules,          \* ValidationEngine.rules: the rule objects, in list order
    graph_query,    \* ValidationEngine.graph_query is not None
    pc,             \* the validate_request call: "idle", "validating", "done"
    request,        \* the request of the call in progress or last returned
    context,        \* its ValidationContext
    tasks,          \* the rule tasks _run_all_rules handed to asyncio.gather
    result,         \* what the last call returned (or that it raised)
    sv_violations,  \* argument of a direct _determine_status call
    sv_status,      \* and what it returned
    now,            \* what datetime.now() returns
    records,        \* AuditLogger.records, in list order
    storage,        \* AuditLogger.storage is set (a durable collaborator)
    mirror,         \* the dicts the collaborator has stored, in order
    next_id,        \* the uuid4 draws made so far (every draw is fresh)
    audit_ret,      \* the last AuditLogger call and what it returned
    detector_graph_query, \* DriftDetector.graph_query: None, or the function
    drift_ret,      \* the last DriftDetector call and what it returned
    in_flight,      \* the tasks whose rule evaluation has not finished
    cancelled,      \* the tasks that were cancelled before they finished
    args_before,    \* the caller's request and specs as they were at the call
    approval,       \* the request_approval handler: position, request, response
    orch,           \* the LibrarianOrchestrator call: position and locals
    graph           \* what the orchestrator's collaborators wrote to the graph

task_vars == <<in_flight, cancelled, args_before>>

engine_vars == <<rules, graph_query, pc, request, context, tasks, result,
                 sv_violations, sv_status, task_vars>>

flow_vars == <<approval, orch, graph>>

audit_vars == <<records, storage, mirror, next_id, audit_ret>>

drift_vars == <<detector_graph_query, drift_ret>>

vars == <<engine_vars, now, audit_vars, drift_vars, flow_vars>>

\* a rule object: ValidationRule.__init__ sets enabled = True; `outcome` is
\* what a custom rule's validate does, whatever the request
Rule(id, impl, outcome) ==
    [id |-> id, enabled |-> TRUE, impl |-> impl, outcome |-> outcome]

\* ValidationEngine.__init__: the five default rules, in this order
DefaultRules ==
    <<Rule("DOC-001", "DocumentStandardsRule", Returned(<<>>)),
      Rule("VER-001", "VersionCompatibilityRule", Returned(<<>>)),
      Rule("ARCH-001", "ArchitectureAlignmentRule", Returned(<<>>)),
      Rule("REQ-001", "RequirementCoverageRule", Returned(<<>>)),
      Rule("CONST-001", "ConstitutionComplianceRule", Returned(<<>>))>>

\* rule.validate(request, context), dispatched on the rule's class
Rule_validate(rule, req, ctx) ==
    CASE rule.impl = "DocumentStandardsRule" -> DocumentStandardsRule_validate(req, ctx)
      [] rule.impl = "VersionCompatibilityRule" -> VersionCompatibilityRule_validate(req, ctx)
      [] rule.impl = "ArchitectureAlignmentRule" -> ArchitectureAlignmentRule_validate(req, ctx)
      [] rule.impl = "RequirementCoverageRule" -> RequirementCoverageRule_validate(req, ctx)
      [] rule.impl = "ConstitutionComplianceRule" -> ConstitutionComplianceRule_validate(req, ctx)
      [] OTHER -> rule.outcome

\* what gather holds for a task that was cancelled: a CancelledError, which
\* is a BaseException and no Exception (the code imports typing.Literal, so
\* it runs on Python 3.8 or later)
Cancelled == [exc |-> FALSE, cancelled |-> TRUE, violations |-> <<>>]

\* what a rule's validate writes to the request and the specs it is handed
\* (the caller's own dicts): the rules only call .get on them and append to
\* a list of their own, so nothing
Rule_writes_defaulting(rule, req, specs) ==
    IF rule.impl = "RequirementCoverageRule"
    THEN [request |-> [req EXCEPT !.content.frontmatter.keys = @ \cup {"satisfies"},
                                  !.content.frontmatter.satisfies =
                                      GetSatisfies(req.content.frontmatter)],
          current_specs |-> specs]
    ELSE [request |-> req, current_specs |-> specs]

Rule_writes(rule, req, specs) == [request |-> req, current_specs |-> specs]

\* the writes of the tasks in S, in task order
RECURSIVE writes_of(_, _, _)
writes_of(ts, S, shared) ==
    IF S = {} THEN shared
    ELSE LET i == CHOOSE x \in S : \A y \in S : x <= y
         IN  writes_of(ts, S \ {i},
                       Rule_writes(ts[i], shared.request, shared.current_specs))

\* the outcomes of the tasks as gather collects them
task_outcomes(ts, req, ctx, cancelled_tasks) ==
    [i \in 1..Len(ts) |-> IF i \in cancelled_tasks THEN Cancelled
                          ELSE Rule_validate(ts[i], req, ctx)]

\* gather as if called without return_exceptions=True
gather_propagating(outcomes, return_exceptions) ==
    IF \E i \in 1..Len(outcomes) : outcomes[i].exc
    THEN [raised |-> TRUE, results |-> <<>>]
    ELSE [raised |-> FALSE, results |-> outcomes]

\* asyncio.gather(*tasks, return_exceptions=...) over the outcomes of the
\* tasks, in task order: with return_exceptions a raised exception is an
\* element of the list, without it the first one propagates
gather(outcomes, return_exceptions) ==
    IF ~return_exceptions /\ \E i \in 1..Len(outcomes) : outcomes[i].exc
    THEN [raised |-> TRUE, results |-> <<>>]
    ELSE [raised |-> FALSE, results |-> outcomes]

\* the `for result in results` loop of _run_all_rules
RECURSIVE collect_violations(_)
collect_violations(results) ==
    IF results = <<>> THEN <<>>
    ELSE (IF Head(results).exc THEN <<>> ELSE Head(results).violations)
         \o collect_violations(Tail(results))

\* the task list of _run_all_rules: one task per enabled rule
enabled_rules(rs) == SelectSeq(rs, LAMBDA r : r.enabled)

\* _run_all_rules without the isinstance(result, Exception) test: extend() of
\* an exception object raises TypeError out of validate_request
_run_all_rules_unguarded(ts, req, ctx, cancelled_tasks) ==
    LET g == gather(task_outcomes(ts, req, ctx, cancelled_tasks), TRUE)
    IN  IF \E i \in 1..Len(g.results) : g.results[i].exc \/ g.results[i].cancelled
        THEN [raised |-> TRUE, violations |-> <<>>]
        ELSE [raised |-> FALSE, violations |-> collect_violations(g.results)]

\* _run_all_rules as if CancelledError were an Exception: the cancelled
\* task is skipped like a rule that raised
_run_all_rules_skipping_cancelled(ts, req, ctx, cancelled_tasks) ==
    LET g == gather(task_outcomes(ts, req, ctx, cancelled_tasks), TRUE)
    IN  [raised |-> g.raised,
         violations |-> IF g.raised THEN <<>> ELSE collect_violations(g.results)]

\* ValidationEngine._run_all_rules from the gather on: every task is done.
\* A result that is no Exception goes to all_violations.extend, which
\* raises TypeError for the CancelledError of a cancelled task
_run_all_rules(ts, req, ctx, cancelled_tasks) ==
    LET g == gather(task_outcomes(ts, req, ctx, cancelled_tasks), TRUE)
        not_iterable == \E i \in 1..Len(g.results) : g.results[i].cancelled
    IN  [raised |-> g.raised \/ not_iterable,
         violations |-> IF g.raised \/ not_iterable THEN <<>>
                        ELSE collect_violations(g.results)]

count(violations, severity) ==
    Cardinality({i \in 1..Len(violations) : violations[i].severity = severity})

\* _determine_status approving whatever has no critical and no high violation
_determine_status_lenient(violations) ==
    IF count(violations, "critical") = 0 /\ count(violations, "high") = 0 THEN "approved"
    ELSE IF count(violations, "critical") > 0 THEN "escalated"
    ELSE "revision_required"

\* _determine_status with the high-count test ahead of the critical test
_determine_status_high_first(violations) ==
    IF violations = <<>> THEN "approved"
    ELSE IF count(violations, "high") >= 3 THEN "revision_required"
    ELSE IF count(violations, "critical") > 0 THEN "escalated"
    ELSE "revision_required"

\* _determine_status rejecting three or more high violations
_determine_status_rejecting(violations) ==
    IF violations = <<>> THEN "approved"
    ELSE IF count(violations, "critical") > 0 THEN "escalated"
    ELSE IF count(violations, "high") >= 3 THEN "rejected"
    ELSE "revision_required"

\* _determine_status with a final fall-through to rejected
_determine_status_fallthrough(violations) ==
    IF violations = <<>> THEN "approved"
    ELSE IF count(violations, "critical") > 0 THEN "escalated"
    ELSE IF count(violations, "high") >= 3 THEN "revision_required"
    ELSE "rejected"

\* ValidationEngine._determine_status
_determine_status(violations) ==
    IF violations = <<>> THEN "approved"
    ELSE IF count(violations, "critical") > 0 THEN "escalated"
    ELSE IF count(violations, "high") >= 3 THEN "revision_required"
    ELSE "revision_required"

\* ValidationEngine._generate_reasoning, as the branch taken
_generate_reasoning(status, violations) ==
    CASE status = "approved" -> "all_rules_passed"
      [] status = "escalated" -> "human_review"
      [] status = "revision_required" -> "address_and_resubmit"
      [] OTHER -> "unknown_status"

NoRequest == Request(None, None, None, None,
                     Frontmatter({}, None, None, None, NoneSeq, None, NoneSeq), <<>>)

NoContext == [graph_query |-> FALSE, current_specs |-> <<>>]

NoArgs == [request |-> NoRequest, current_specs |-> <<>>]

NoResult == [raised |-> FALSE, status |-> None, violations |-> <<>>,
             reasoning |-> None, rules_executed |-> 0, request_id |-> None]

\* validate_request up to its await: the context is built and one task per
\* enabled rule is handed to gather. What becomes of the caller's own
\* variables (flow_vars) is for the caller to say
validate_request_call(req, specs) ==
    /\ pc = "idle"
    /\ pc' = "validating"
    /\ request' = req
    /\ context' = [graph_query |-> graph_query, current_specs |-> specs]
    /\ tasks' = enabled_rules(rules)
    /\ result' = NoResult
    /\ in_flight' = 1..Len(enabled_rules(rules))
    /\ cancelled' = {}
    /\ args_before' = [request |-> req, current_specs |-> specs]
    /\ UNCHANGED <<now, audit_vars, drift_vars,
                   rules, graph_query, sv_violations, sv_status>>

\* the rule evaluations of the tasks in S finish in the executor; each has
\* read, and may have written, the request and the specs all tasks share
rules_finish(S) ==
    /\ pc = "validating"
    /\ S # {} /\ S \subseteq in_flight
    /\ in_flight' = in_flight \ S
    /\ LET shared == writes_of(tasks, S, [request |-> request,
                                          current_specs |-> context.current_specs])
       IN  /\ request' = shared.request
           /\ context' = [context EXCEPT !.current_specs = shared.current_specs]
    /\ UNCHANGED <<now, audit_vars, drift_vars, flow_vars,
                   rules, graph_query, pc, tasks, result, cancelled, args_before,
                   sv_violations, sv_status>>

\* task i is cancelled while its rule is being evaluated: gather keeps its
\* CancelledError as the task's result (return_exceptions=True)
cancel_task(i) ==
    /\ pc = "validating"
    /\ i \in in_flight
    /\ in_flight' = in_flight \ {i}
    /\ cancelled' = cancelled \cup {i}
    /\ UNCHANGED <<now, audit_vars, drift_vars, flow_vars,
                   rules, graph_query, pc, request, context, tasks, result,
                   args_before, sv_violations, sv_status>>

\* the caller abandons the call (cancellation, a wait_for timeout) while it
\* awaits gather: gather cancels the tasks still in flight and CancelledError
\* is raised out of validate_request
abandon ==
    /\ pc = "validating"
    /\ in_flight # {}
    /\ pc' = "done"
    /\ cancelled' = cancelled \cup in_flight
    /\ in_flight' = {}
    /\ result' = [NoResult EXCEPT !.raised = TRUE]
    /\ UNCHANGED <<now, audit_vars, drift_vars, flow_vars,
                   rules, graph_query, request, context, tasks, args_before,
                   sv_violations, sv_status>>

\* validate_request from the await on: gather has every task's outcome, the
\* status is determined and the ValidationResult is returned
validate_request_return ==
    /\ pc = "validating"
    /\ in_flight = {}
    /\ pc' = "done"
    /\ LET run == _run_all_rules(tasks, request, context, cancelled)
           status == _determine_status(run.violations)
       IN  result' = IF run.raised
                     THEN [NoResult EXCEPT !.raised = TRUE]
                     ELSE [raised |-> FALSE,
                           status |-> status,
                           violations |-> run.violations,
                           reasoning |-> _generate_reasoning(status, run.violations),
                           rules_executed |-> Len(rules),
                           request_id |-> request.id]
    /\ UNCHANGED <<now, audit_vars, drift_vars, flow_vars, task_vars,
                   rules, graph_query, request, context, tasks,
                   sv_violations, sv_status>>

\* the caller drops the ValidationResult it was returned (its own variables
\* are for the caller to say)
release ==
    /\ pc = "done"
    /\ pc' = "idle"
    /\ request' = NoRequest
    /\ context' = NoContext
    /\ tasks' = <<>>
    /\ result' = NoResult
    /\ in_flight' = {}
    /\ cancelled' = {}
    /\ args_before' = NoArgs
    /\ UNCHANGED <<now, audit_vars, drift_vars,
                   rules, graph_query, sv_violations, sv_status>>

custom_rules(rs) == SelectSeq(rs, LAMBDA r : r.impl = "CustomRule")

\* ValidationEngine.add_rule, between calls of validate_request
add_rule(rule) ==
    /\ pc = "idle"
    /\ Len(custom_rules(rules)) < MaxCustomRules
    /\ rules' = Append(rules, rule)
    /\ UNCHANGED <<now, audit_vars, drift_vars, flow_vars, task_vars,
                   graph_query, pc, request, context, tasks, result,
                   sv_violations, sv_status>>

\* remove_rule dropping only the first rule that has the id
remove_rule_first_only(rule_id) ==
    /\ pc = "idle"
    /\ rules' = LET first == {i \in 1..Len(rules) :
                                /\ rules[i].id = rule_id
                                /\ \A j \in 1..(i - 1) : rules[j].id # rule_id}
                IN  [i \in 1..(Len(rules) - Cardinality(first)) |->
                        IF \E j \in first : j <= i THEN rules[i + 1] ELSE rules[i]]
    /\ UNCHANGED <<now, audit_vars, drift_vars, flow_vars, task_vars,
                   graph_query, pc, request, context, tasks, result,
                   sv_violations, sv_status>>

\* ValidationEngine.remove_rule, between calls of validate_request
remove_rule(rule_id) ==
    /\ pc = "idle"
    /\ rules' = SelectSeq(rules, LAMBDA r : r.id # rule_id)
    /\ UNCHANGED <<now, audit_vars, drift_vars, flow_vars, task_vars,
                   graph_query, pc, request, context, tasks, result,
                   sv_violations, sv_status>>

\* ValidationEngine.get_rule: the first rule with the id, or None (<<>>)
get_rule(rs, rule_id) ==
    LET found == {i \in 1..Len(rs) : rs[i].id = rule_id}
    IN  IF found = {} THEN <<>>
        ELSE <<rs[CHOOSE i \in found : \A j \in found : i <= j]>>

\* rule.enabled = enabled, for the rule at position i of the list, between
\* calls of validate_request
set_enabled(i, enabled) ==
    /\ pc = "idle"
    /\ i \in 1..Len(rules)
    /\ rules' = [rules EXCEPT ![i].enabled = enabled]
    /\ UNCHANGED <<now, audit_vars, drift_vars, flow_vars, task_vars,
                   graph_query, pc, request, context, tasks, result,
                   sv_violations, sv_status>>

\* a direct call of _determine_status on the list held in sv_violations
determine_status_call ==
    /\ sv_status = None
    /\ sv_status' = _determine_status(sv_violations)
    /\ UNCHANGED <<now, audit_vars, drift_vars, flow_vars, task_vars,
                   rules, graph_query, pc, request, context, tasks, result,
                   sv_violations>>

\* ------------------------------------------------------------ audit trail
\* dict.get(key): None when the key is absent
Get(d, key) == IF key \in DOMAIN d THEN d[key] ELSE None

\* AuditRecord; a field left to its default is None
AuditRecord(id, timestamp, event_type, request_id, agent_id, target_id, target_type, res, decision, metadata) ==
    [id |-> id, timestamp |-> timestamp, event_type |-> event_type,
     request_id |-> request_id, agent_id |-> agent_id, target_id |-> target_id,
     target_type |-> target_type, result |-> res, decision |-> decision,
     metadata |-> metadata]

\* datetime.isoformat()
isoformat(timestamp) == <<"iso", timestamp>>

\* AuditRecord.to_dict: the same keys, the timestamp as its ISO string
AuditRecord_to_dict(record) == [record EXCEPT !.timestamp = isoformat(record.timestamp)]

\* f"AUD-{uuid.uuid4().hex[:12]}" for the n-th draw
AuditId(n) == <<"AUD", n>>

\* ValidationResult.to_dict, the keys the audit trail's readers use
ValidationResult_to_dict(res) ==
    [status |-> res.status, violations |-> res.violations,
     metadata |-> res.metadata, processing_time_ms |-> res.processing_time_ms]

\* the record log_validation builds
validation_record(id, timestamp, req, res) ==
    AuditRecord(id, timestamp, "validation",
                Get(req, "id"), Get(req, "agent_id"), Get(req, "target_id"),
                Get(req, "target_type"),
                ValidationResult_to_dict(res), res.status,
                [processing_time_ms |-> res.processing_time_ms,
                 violations_count |-> Len(res.violations),
                 rules_executed |-> IF "rules_executed" \in DOMAIN res.metadata
                                    THEN res.metadata.rules_executed ELSE 0])

\* the record log_decision builds
decision_record(id, timestamp, decision) ==
    AuditRecord(id, timestamp, "decision",
                Get(decision, "request_id"), Get(decision, "agent_id"),
                Get(decision, "target_id"), Get(decision, "target_type"),
                None, Get(decision, "decision_type"),
                [rationale |-> Get(decision, "rationale"),
                 confidence |-> Get(decision, "confidence"),
                 impact_level |-> Get(decision, "impact_level")])

\* the record log_drift_detection builds
drift_detection_record(id, timestamp, violations) ==
    AuditRecord(id, timestamp, "drift_detection", None, None, None, None, None, None,
                [violations_count |-> Len(violations), violations |-> violations])

\* _store_record keeping the latest record only
_store_record_latest_only(recs, stored, has_storage, store_raises, record) ==
    [records |-> <<record>>,
     mirror |-> IF has_storage /\ ~store_raises
                THEN Append(stored, AuditRecord_to_dict(record)) ELSE stored,
     raised |-> FALSE]

\* _store_record without its try/except around the collaborator
_store_record_propagating(recs, stored, has_storage, store_raises, record) ==
    [records |-> Append(recs, record),
     mirror |-> IF has_storage /\ ~store_raises
                THEN Append(stored, AuditRecord_to_dict(record)) ELSE stored,
     raised |-> has_storage /\ store_raises]

\* _store_record with records.insert(0, record) for records.append(record)
_store_record_prepending(recs, stored, has_storage, store_raises, record) ==
    [records |-> <<record>> \o recs,
     mirror |-> IF has_storage /\ ~store_raises
                THEN Append(stored, AuditRecord_to_dict(record)) ELSE stored,
     raised |-> FALSE]

\* AuditLogger._store_record: append to the in-memory list, then mirror to
\* the collaborator when there is one; an exception of the collaborator is
\* printed and dropped
_store_record(recs, stored, has_storage, store_raises, record) ==
    [records |-> Append(recs, record),
     mirror |-> IF has_storage /\ ~store_raises
                THEN Append(stored, AuditRecord_to_dict(record)) ELSE stored,
     raised |-> FALSE]

\* AuditLogger.get_record: the first record with that id, or None
get_record(recs, record_id) ==
    LET hits == SelectSeq(recs, LAMBDA r : r.id = record_id)
    IN  IF hits = <<>> THEN None ELSE hits[1]

\* AuditLogger.get_records_by_request
get_records_by_request(recs, request_id) ==
    SelectSeq(recs, LAMBDA r : r.request_id = request_id)

\* an Optional[datetime]: None is NoTime, the time t is Time(t)
NoTime == <<>>

Time(t) == <<t>>

\* AuditLogger.get_records_by_agent; a bound of None is not applied
get_records_by_agent(recs, agent_id, start_time, end_time) ==
    LET by_agent == SelectSeq(recs, LAMBDA r : r.agent_id = agent_id)
        from_start == IF start_time # NoTime
                      THEN SelectSeq(by_agent, LAMBDA r : r.timestamp >= start_time[1])
                      ELSE by_agent
    IN  IF end_time # NoTime
        THEN SelectSeq(from_start, LAMBDA r : r.timestamp <= end_time[1])
        ELSE from_start

\* sorted(records, key=lambda r: r.timestamp, reverse=True): a stable sort,
\* records of equal timestamp keep their order
RECURSIVE sorted_by_timestamp_reverse(_)
sorted_by_timestamp_reverse(recs) ==
    IF recs = <<>> THEN <<>>
    ELSE LET front == sorted_by_timestamp_reverse(SubSeq(recs, 1, Len(recs) - 1))
             last == recs[Len(recs)]
             k == Cardinality({i \in 1..Len(front) : front[i].timestamp >= last.timestamp})
         IN  SubSeq(front, 1, k) \o <<last>> \o SubSeq(front, k + 1, Len(front))

\* seq[:limit] of Python: a negative limit counts from the end
SliceTo(seq, limit) ==
    IF limit >= 0
    THEN SubSeq(seq, 1, IF limit < Len(seq) THEN limit ELSE Len(seq))
    ELSE SubSeq(seq, 1, IF Len(seq) + limit > 0 THEN Len(seq) + limit ELSE 0)

\* get_recent_records that slices the log without sorting it
get_recent_records_unsorted(recs, limit, event_type) ==
    LET filtered == IF event_type # None /\ event_type # ""
                    THEN SelectSeq(recs, LAMBDA r : r.event_type = event_type)
                    ELSE recs
    IN  SliceTo(filtered, limit)

\* AuditLogger.get_recent_records
get_recent_records(recs, limit, event_type) ==
    LET filtered == IF event_type # None /\ event_type # ""
                    THEN SelectSeq(recs, LAMBDA r : r.event_type = event_type)
                    ELSE recs
    IN  SliceTo(sorted_by_timestamp_reverse(filtered), limit)

\* AuditLogger.get_statistics; a dict of counts has the keys that occur
get_statistics(recs) ==
    LET types == {recs[i].event_type : i \in 1..Len(recs)}
        decisions == {recs[i].decision : i \in 1..Len(recs)} \ {None, ""}
        stamps == {recs[i].timestamp : i \in 1..Len(recs)}
    IN  [total_records |-> Len(recs),
         by_event_type |-> [t \in types |->
             Cardinality({i \in 1..Len(recs) : recs[i].event_type = t})],
         by_decision |-> [d \in decisions |->
             Cardinality({i \in 1..Len(recs) : recs[i].decision = d})],
         earliest_record |-> IF recs = <<>> THEN NoTime
                             ELSE Time(CHOOSE t \in stamps : \A u \in stamps : t <= u),
         latest_record |-> IF recs = <<>> THEN NoTime
                           ELSE Time(CHOOSE t \in stamps : \A u \in stamps : t >= u)]

\* what a call returned: the method, its arguments where a claim reads
\* them, whether it raised, and the value
Return(op, args, raised, value) ==
    [op |-> op, args |-> args, raised |-> raised, value |-> value]

NoReturn == Return(None, <<>>, FALSE, None)

\* the clock moves on
tick ==
    /\ now < MaxClock
    /\ now' = now + 1
    /\ UNCHANGED <<flow_vars, engine_vars, audit_vars, drift_vars>>

\* the tail shared by the three log_* methods: the record goes to
\* _store_record and its id is returned
log_record(op, record, store_raises) ==
    /\ Len(records) < MaxRecords
    /\ LET st == _store_record(records, mirror, storage, store_raises, record)
       IN  /\ records' = st.records
           /\ mirror' = st.mirror
           /\ audit_ret' = Return(op, <<>>, st.raised,
                                   IF st.raised THEN None ELSE record.id)
    /\ next_id' = next_id + 1
    /\ UNCHANGED <<flow_vars, engine_vars, now, storage, drift_vars>>

\* AuditLogger.log_validation
log_validation(req, res, store_raises) ==
    log_record("log_validation", validation_record(AuditId(next_id), now, req, res),
               store_raises)

\* AuditLogger.log_decision
log_decision(decision, store_raises) ==
    log_record("log_decision", decision_record(AuditId(next_id), now, decision),
               store_raises)

\* AuditLogger.log_drift_detection
log_drift_detection(violations, store_raises) ==
    log_record("log_drift_detection",
               drift_detection_record(AuditId(next_id), now, violations), store_raises)

\* a read accessor is called and returns
read_call(op, args, value) ==
    /\ audit_ret' = Return(op, args, FALSE, value)
    /\ UNCHANGED <<flow_vars, engine_vars, now, records, storage, mirror, next_id, drift_vars>>

get_record_call(record_id) ==
    read_call("get_record", <<>>, get_record(records, record_id))

get_records_by_request_call(request_id) ==
    read_call("get_records_by_request", <<>>, get_records_by_request(records, request_id))

get_records_by_agent_call(agent_id, start_time, end_time) ==
    read_call("get_records_by_agent", <<>>,
              get_records_by_agent(records, agent_id, start_time, end_time))

get_recent_records_call(limit, event_type) ==
    read_call("get_recent_records", <<limit, event_type>>,
              get_recent_records(records, limit, event_type))

get_statistics_call ==
    read_call("get_statistics", <<>>, get_statistics(records))

\* the caller drops what the last AuditLogger call returned
audit_release ==
    /\ audit_ret.op # None
    /\ audit_ret' = NoReturn
    /\ UNCHANGED <<flow_vars, engine_vars, now, records, storage, mirror, next_id, drift_vars>>

\* ---------------------------------------------------------- drift detector
\* DriftDetector.graph_query: None is NoGraphQuery, a function is
\* GraphQuery(answers) with, for each of the four queries, what the function
\* does: [exc |-> it raises, rows |-> the row dicts it returns]
NoGraphQuery == <<>>

GraphQuery(answers) == <<answers>>

\* models.DriftViolation; detected_at defaults to datetime.now()
DriftViolation(type, severity, source, target, description, time_delta, detected_at) ==
    [type |-> type, severity |-> severity, source |-> source, target |-> target,
     description |-> description, time_delta |-> time_delta, detected_at |-> detected_at]

\* DriftViolation.to_dict
DriftViolation_to_dict(v) == [v EXCEPT !.detected_at = isoformat(v.detected_at)]

\* the DriftViolation detect_design_drift builds of a row
design_drift_violation(r, t) ==
    DriftViolation("design_ahead_of_architecture", "high", r.design_id, r.arch_id,
                   <<"modified_after_without_approval", r.design_id, r.arch_id>>,
                   IF r.design_modified # NoTime /\ r.arch_modified # NoTime
                   THEN Time(r.design_modified[1] - r.arch_modified[1]) ELSE NoTime,
                   t)

\* detect_design_drift that calls graph_query without testing it for None
detect_design_drift_unguarded(gq, t) ==
    IF gq = NoGraphQuery THEN Raised
    ELSE IF gq[1].design.exc THEN Returned(<<>>)
    ELSE Returned([i \in 1..Len(gq[1].design.rows) |->
                     design_drift_violation(gq[1].design.rows[i], t)])

\* DriftDetector.detect_design_drift, called at time t
detect_design_drift(gq, t) ==
    IF gq = NoGraphQuery THEN Returned(<<>>)
    ELSE IF gq[1].design.exc THEN Returned(<<>>)
    ELSE Returned([i \in 1..Len(gq[1].design.rows) |->
                     design_drift_violation(gq[1].design.rows[i], t)])

\* the DriftViolation detect_undocumented_code builds of a row
undocumented_code_violation(r, t) ==
    DriftViolation("undocumented_code", "medium", r.code_id, None,
                   <<"no_design_documentation", r.code_path>>,
                   IF r.created_at # NoTime THEN Time(t - r.created_at[1]) ELSE NoTime,
                   t)

\* DriftDetector.detect_undocumented_code, called at time t
detect_undocumented_code(gq, t) ==
    IF gq = NoGraphQuery THEN Returned(<<>>)
    ELSE IF gq[1].code.exc THEN Returned(<<>>)
    ELSE Returned([i \in 1..Len(gq[1].code.rows) |->
                     undocumented_code_violation(gq[1].code.rows[i], t)])

\* req_text[:100] is the whole text up to this length
DescriptionLimit == 100

\* the DriftViolation detect_uncovered_requirements builds of a row; the
\* text of a row is given by its length
uncovered_requirement_violation(r, t) ==
    DriftViolation("uncovered_requirement",
                   IF r.priority = "high" THEN "high" ELSE "medium",
                   r.req_id, None,
                   <<"not_satisfied", r.req_id,
                     IF r.text[1] > DescriptionLimit THEN DescriptionLimit ELSE r.text[1],
                     IF r.text[1] > DescriptionLimit THEN "..." ELSE "">>,
                   IF r.created_at # NoTime THEN Time(t - r.created_at[1]) ELSE NoTime,
                   t)

\* DriftDetector.detect_uncovered_requirements, called at time t; a row
\* whose text is None (no text of any length) makes req_text[:100] raise
detect_uncovered_requirements(gq, t) ==
    IF gq = NoGraphQuery THEN Returned(<<>>)
    ELSE IF gq[1].req.exc THEN Returned(<<>>)
    ELSE IF \E i \in 1..Len(gq[1].req.rows) : gq[1].req.rows[i].text = <<>> THEN Raised
    ELSE Returned([i \in 1..Len(gq[1].req.rows) |->
                     uncovered_requirement_violation(gq[1].req.rows[i], t)])

\* the DriftViolation detect_version_mismatches builds of a row
version_mismatch_violation(r, t) ==
    DriftViolation("version_mismatch", "high", r.child_id, r.parent_id,
                   <<"version_mismatch", r.child_id, r.child_version,
                     r.parent_id, r.parent_version>>,
                   NoTime, t)

\* DriftDetector.detect_version_mismatches, called at time t
detect_version_mismatches(gq, t) ==
    IF gq = NoGraphQuery THEN Returned(<<>>)
    ELSE IF gq[1].version.exc THEN Returned(<<>>)
    ELSE Returned([i \in 1..Len(gq[1].version.rows) |->
                     version_mismatch_violation(gq[1].version.rows[i], t)])

\* detect_all_drift that also runs detect_version_mismatches
detect_all_drift_with_versions(gq, t) ==
    LET design == detect_design_drift(gq, t)
        code == detect_undocumented_code(gq, t)
        req == detect_uncovered_requirements(gq, t)
        version == detect_version_mismatches(gq, t)
    IN  IF design.exc \/ code.exc \/ req.exc \/ version.exc THEN Raised
        ELSE Returned(design.violations \o code.violations \o req.violations
                      \o version.violations)

\* DriftDetector.detect_all_drift, called at time t: an exception of one of
\* the three detections leaves the call
detect_all_drift(gq, t) ==
    LET design == detect_design_drift(gq, t)
        code == detect_undocumented_code(gq, t)
        req == detect_uncovered_requirements(gq, t)
    IN  IF design.exc \/ code.exc \/ req.exc THEN Raised
        ELSE Returned(design.violations \o code.violations \o req.violations)

\* the summary dict of get_drift_summary; a dict of counts has the keys
\* that occur
drift_summary(all_violations) ==
    LET idx == 1..Len(all_violations)
    IN  [total_violations |-> Len(all_violations),
         by_type |-> [ty \in {all_violations[i].type : i \in idx} |->
                         Cardinality({i \in idx : all_violations[i].type = ty})],
         by_severity |-> [sev \in {all_violations[i].severity : i \in idx} |->
                         Cardinality({i \in idx : all_violations[i].severity = sev})],
         critical_violations |->
             LET critical == SelectSeq(all_violations, LAMBDA v : v.severity = "critical")
             IN  [i \in 1..Len(critical) |-> DriftViolation_to_dict(critical[i])]]

\* a DriftDetector method is called and returns or raises; the time of the
\* call is kept with what it returned
drift_call(op, outcome, value) ==
    /\ drift_ret.op = None
    /\ drift_ret' = Return(op, <<now>>, outcome.exc, IF outcome.exc THEN None ELSE value)
    /\ UNCHANGED <<flow_vars, engine_vars, now, audit_vars, detector_graph_query>>

detect_design_drift_call ==
    LET outcome == detect_design_drift(detector_graph_query, now)
    IN  drift_call("detect_design_drift", outcome, outcome.violations)

detect_undocumented_code_call ==
    LET outcome == detect_undocumented_code(detector_graph_query, now)
    IN  drift_call("detect_undocumented_code", outcome, outcome.violations)

detect_uncovered_requirements_call ==
    LET outcome == detect_uncovered_requirements(detector_graph_query, now)
    IN  drift_call("detect_uncovered_requirements", outcome, outcome.violations)

detect_version_mismatches_call ==
    LET outcome == detect_version_mismatches(detector_graph_query, now)
    IN  drift_call("detect_version_mismatches", outcome, outcome.violations)

detect_all_drift_call ==
    LET outcome == detect_all_drift(detector_graph_query, now)
    IN  drift_call("detect_all_drift", outcome, outcome.violations)

\* DriftDetector.get_drift_summary
get_drift_summary_call ==
    LET outcome == detect_all_drift(detector_graph_query, now)
    IN  drift_call("get_drift_summary", outcome, drift_summary(outcome.violations))

\* the caller drops what the last DriftDetector call returned
drift_release ==
    /\ drift_ret.op # None
    /\ drift_ret' = NoReturn
    /\ UNCHANGED <<flow_vars, engine_vars, now, audit_vars, detector_graph_query>>

\* ---------------------------------------------------------- approval flow
\* an AgentRequest as request_approval builds it from the API model
AgentRequest(id, agent_id, action, target_type, target_id) ==
    [id |-> id, agent_id |-> agent_id, action |-> action,
     target_type |-> target_type, target_id |-> target_id]

\* AgentRequest.to_dict() as the rules read it: content is {"text": ...}, so
\* it has no frontmatter and no path
AgentRequest_to_dict(req) ==
    Request(req.id, req.action, req.target_type, req.target_id,
            Frontmatter({}, None, None, None, NoneSeq, None, NoneSeq), <<>>)

\* an Optional[str] location: None is NoLocation
NoLocation == <<>>

\* f"docs/{request_id}/{request.target_type}.md"
approved_location_swapped(status, target_type, request_id) ==
    IF status = "approved"
    THEN <<"docs/", request_id, "/", target_type, ".md">>
    ELSE NoLocation

\* request_approval: the location, computed only for an approved result,
\* f"docs/{request.target_type}/{request_id}.md"
approved_location(status, target_type, request_id) ==
    IF status = "approved"
    THEN <<"docs/", target_type, "/", request_id, ".md">>
    ELSE NoLocation

\* create_response_from_validation: the AgentResponse; next_steps as the
\* branch taken, with the location its first step names
create_response_from_validation(validation_result, location) ==
    LET status == validation_result.status
    IN  [status |-> status,
         feedback |-> validation_result.reasoning,
         approved_location |-> IF status = "approved" THEN location ELSE NoLocation,
         next_steps |-> CASE status = "approved" -> <<"write_content_to", location>>
                          [] status = "revision_required" -> <<"address_violations">>
                          [] status = "escalated" -> <<"wait_for_human_review">>
                          [] OTHER -> <<>>,
         violations |-> validation_result.violations,
         metadata |-> [rules_executed |-> validation_result.rules_executed]]

NoResponse == [status |-> None, feedback |-> None, approved_location |-> NoLocation,
               next_steps |-> <<>>, violations |-> <<>>,
               metadata |-> [rules_executed |-> 0]]

\* the object log_request hands to log_validation in place of a
\* ValidationResult: type('Result', (), {'to_dict': lambda: result_dict,
\* ...})(), whose to_dict is a function of no parameter
ResultStandIn(response) ==
    [to_dict_params |-> 0,
     status |-> response.status, violations |-> response.violations,
     metadata |-> <<>>, processing_time_ms |-> 0]

\* result.to_dict() on an instance whose class holds to_dict as a function
\* of that many parameters: the call passes the instance as the one
\* argument, TypeError unless the function takes exactly one
to_dict_raises(res) == res.to_dict_params # 1

\* AuditTrail.log_request: log_validation on the trail's own AuditLogger
\* (storage None) builds the record, result.to_dict() among its arguments,
\* and stores it; an exception of log_validation propagates
AuditTrail_log_request(recs, n, t, req, response) ==
    LET res == ResultStandIn(response)
        record == validation_record(AuditId(n), t,
                      [id |-> req.id, agent_id |-> req.agent_id,
                       target_id |-> req.target_id, target_type |-> req.target_type],
                      res)
    IN  IF to_dict_raises(res)
        THEN [records |-> recs, raised |-> TRUE, value |-> None]
        ELSE [records |-> _store_record(recs, <<>>, FALSE, FALSE, record).records,
              raised |-> FALSE, value |-> record.id]

Verdicts == {"approved", "revision_required", "escalated"}

\* no request_approval call in progress
NoApproval == [state |-> "idle", request |-> AgentRequest(None, None, None, None, None),
               response |-> NoResponse, http |-> None]

\* request_approval up to its first await: the request id is drawn and the
\* AgentRequest is built
approval_submit(request_id, agent_id, action, target_type, target_id) ==
    /\ approval.state = "idle"
    /\ approval' = [NoApproval EXCEPT
                       !.state = "submitted",
                       !.request = AgentRequest(request_id, agent_id, action,
                                                target_type, target_id)]
    /\ UNCHANGED <<engine_vars, now, audit_vars, drift_vars, orch, graph>>

\* request_approval calls engine.validate_request(agent_request.to_dict(),
\* context={}) and awaits it
approval_validate ==
    /\ approval.state = "submitted"
    /\ approval' = [approval EXCEPT !.state = "validating"]
    /\ validate_request_call(AgentRequest_to_dict(approval.request), <<>>)
    /\ UNCHANGED <<orch, graph>>

\* request_approval from the await on: the location is computed and the
\* response created; an exception of validate_request goes to the handler's
\* except clause (HTTP 500)
approval_respond ==
    /\ approval.state = "validating"
    /\ pc = "done"
    /\ approval' =
          IF result.raised THEN [approval EXCEPT !.state = "failed", !.http = "500"]
          ELSE LET location == approved_location(result.status,
                                   approval.request.target_type, approval.request.id)
                   response == create_response_from_validation(result, location)
               IN  [approval EXCEPT !.state = response.status, !.response = response]
    /\ release
    /\ UNCHANGED <<orch, graph>>

\* request_approval from `await audit.log_request(agent_request, response)`
\* to its return: the response model is returned, or the exception of
\* log_request is turned into HTTP 500
approval_audit ==
    /\ approval.state \in Verdicts
    /\ approval.http = None
    /\ Len(records) < MaxRecords
    /\ LET out == AuditTrail_log_request(records, next_id, now,
                                         approval.request, approval.response)
       IN  /\ records' = out.records
           /\ next_id' = IF out.raised THEN next_id ELSE next_id + 1
           /\ approval' = [approval EXCEPT !.http = IF out.raised THEN "500" ELSE "200"]
    /\ UNCHANGED <<engine_vars, now, storage, mirror, audit_ret, drift_vars, orch, graph>>

\* the client has its answer
approval_release ==
    /\ approval.http # None
    /\ approval' = NoApproval
    /\ UNCHANGED <<engine_vars, now, audit_vars, drift_vars, orch, graph>>

\* ------------------------------------------------------------ orchestrator
\* a ParsedDocument, as far as the request built from it shows
ParsedDocument(doc_type, frontmatter, path) ==
    [doc_type |-> doc_type, frontmatter |-> frontmatter, path |-> path]

NoDocument == ParsedDocument(None, Frontmatter({}, None, None, None, NoneSeq, None, NoneSeq), <<>>)

\* what pipeline.process_file returns
ProcessResult(success, document) == [success |-> success, document |-> document]

\* RequestAdapter.document_to_request, called on a document with an id in
\* its frontmatter: the request id is a hash, the target id falls back to
\* the frontmatter id, the content carries frontmatter and path
document_to_request(document, action, request_id, target_id) ==
    Request(request_id, action, document.doc_type,
            IF TruthyStr(target_id) THEN target_id ELSE document.frontmatter.id,
            document.frontmatter, document.path)

\* the stores when validation says anything but escalated
should_store_unless_escalated(skip_validation, force_update, validated, status) ==
    skip_validation \/ force_update \/ (validated /\ status # "escalated")

\* should_store of process_document, and of update_document with
\* force_update False: `validation_result and validation_result.passed`,
\* passed being status == APPROVED
should_store(skip_validation, force_update, validated, status) ==
    skip_validation \/ force_update \/ (validated /\ status = "approved")

\* an OrchestrationResult
OrchestrationResult(success, document_id, error) ==
    [success |-> success, document_id |-> document_id, error |-> error]

\* the graph database: ids of the document nodes and request ids of the
\* decisions written
NoGraph == [documents |-> {}, audits |-> {}]

\* no process_document or update_document call in progress; stored says
\* that this call wrote the document node
NoOrch == [pc |-> "idle", op |-> None, skip_validation |-> FALSE, force_update |-> FALSE,
           document |-> NoDocument, request |-> NoRequest, status |-> None,
           stored |-> FALSE, result |-> OrchestrationResult(FALSE, None, None)]

\* steps 4 and 5 of process_document (the same lines of update_document)
\* after the validation step, on an orchestrator record o: the record at
\* the return and the graph. merge_raises and audit_raises are the faults
\* of the graph database in store_document and store_validation_result;
\* either exception ends in the except clause of the handler
orchestrate_finish(o, g, validated, status, merge_raises, audit_raises) ==
    LET store == should_store(o.skip_validation, o.force_update, validated, status)
        document_id == o.document.frontmatter.id
        written == store /\ ~merge_raises
        g1 == IF written
              THEN [g EXCEPT !.documents = g.documents \cup {document_id}]
              ELSE g
        audited == validated /\ ~(store /\ merge_raises)
        g2 == IF audited /\ ~audit_raises
              THEN [g1 EXCEPT !.audits = g1.audits \cup {o.request.id}]
              ELSE g1
        res == IF store /\ merge_raises
               THEN OrchestrationResult(FALSE, None, "Document storage failed")
               ELSE IF audited /\ audit_raises
               THEN OrchestrationResult(FALSE, None, "Validation storage failed")
               ELSE OrchestrationResult(store, IF store THEN document_id ELSE None, None)
    IN  [orch |-> [o EXCEPT !.pc = "returned", !.status = status,
                            !.stored = written, !.result = res],
         graph |-> g2]

\* process_document / update_document on a file that is not processed, on
\* a document without id (ValueError of document_to_request), or with
\* skip_validation: the call runs to its return without the engine
orchestrate_unvalidated(op, file, skip_validation, force_update, request_id, merge_raises) ==
    /\ orch.pc = "idle"
    /\ op = "update_document" => ~force_update
    /\ ~file.success \/ "id" \notin file.document.frontmatter.keys \/ skip_validation
    /\ LET o == [NoOrch EXCEPT !.op = op, !.skip_validation = skip_validation,
                               !.force_update = force_update]
           action == IF op = "update_document" THEN "update" ELSE "create"
       IN  IF ~file.success
           THEN /\ orch' = [o EXCEPT !.pc = "returned",
                               !.result = OrchestrationResult(FALSE, None, "Processing failed")]
                /\ graph' = graph
           ELSE IF "id" \notin file.document.frontmatter.keys
           THEN /\ orch' = [o EXCEPT !.pc = "returned", !.document = file.document,
                               !.result = OrchestrationResult(FALSE, None, "ValueError")]
                /\ graph' = graph
           ELSE LET out == orchestrate_finish(
                               [o EXCEPT !.document = file.document,
                                         !.request = document_to_request(file.document,
                                             action, request_id, None)],
                               graph, FALSE, None, merge_raises, FALSE)
                IN  orch' = out.orch /\ graph' = out.graph
    /\ UNCHANGED <<engine_vars, now, audit_vars, drift_vars, approval>>

\* process_document / update_document up to the await of validate_request:
\* the file is processed, the request built and handed to the engine with
\* context={}
orchestrate_call(op, file, force_update, request_id) ==
    /\ orch.pc = "idle"
    /\ op = "update_document" => ~force_update
    /\ file.success
    /\ "id" \in file.document.frontmatter.keys
    /\ LET action == IF op = "update_document" THEN "update" ELSE "create"
           req == document_to_request(file.document, action, request_id, None)
       IN  /\ orch' = [NoOrch EXCEPT !.pc = "validating", !.op = op,
                                     !.force_update = force_update,
                                     !.document = file.document, !.request = req]
           /\ validate_request_call(req, <<>>)
    /\ UNCHANGED <<graph, approval>>

\* process_document / update_document from the await on: store if
\* should_store, then the audit trail, then the result; every exception
\* gives OrchestrationResult(success=False, error=...)
orchestrate_resume(merge_raises, audit_raises) ==
    /\ orch.pc = "validating"
    /\ pc = "done"
    /\ IF result.raised
       THEN /\ orch' = [orch EXCEPT !.pc = "returned",
                           !.result = OrchestrationResult(FALSE, None, "validate_request")]
            /\ graph' = graph
       ELSE LET out == orchestrate_finish(orch, graph, TRUE, result.status,
                                          merge_raises, audit_raises)
            IN  orch' = out.orch /\ graph' = out.graph
    /\ release
    /\ UNCHANGED approval

\* the caller has the OrchestrationResult
orchestrate_release ==
    /\ orch.pc = "returned"
    /\ orch' = NoOrch
    /\ UNCHANGED <<engine_vars, now, audit_vars, drift_vars, approval, graph>>

\* ----------------------------------------------------------------- inputs
\* every frontmatter key of PlainKeys, as the test fixture's frontmatter has
\* the keys its type requires
AllPlain == PlainKeys

\* context["specs"] of the test fixture, with the statuses given
Specs(arch, target, req) ==
    [x \in {"arch-001", "test-001", "req-001"} |->
        CASE x = "arch-001" -> arch
          [] x = "test-001" -> target
          [] x = "req-001" -> req]

ArchEntries(statuses, versions, implementss) ==
    {SpecEntry("arch-001", "architecture", st, v, im) :
        st \in statuses, v \in versions, im \in implementss}

TargetEntries(doc_types, statuses) ==
    {SpecEntry("test-001", dt, st, V_1_0_0, None) : dt \in doc_types, st \in statuses}

ReqEntries(statuses) ==
    {SpecEntry("req-001", "requirement", st, V_1_0_0, None) : st \in statuses}

\* context None, or {"specs": {}}
NoSpecs == <<>>

\* every request with action in As, target_type in Ts, target_id in TIs,
\* plain frontmatter keys in Ks, frontmatter id in Is, version in Vs,
\* implements in Ms, satisfies in Ss and path in Ps
Requests(As, Ts, TIs, Ks, Is, Vs, Ms, Ss, Ps) ==
    {Request("REQ-001", a, t, tid, Frontmatter(pl, i, None, None, v, im, sa), pa) :
        a \in As, t \in Ts, tid \in TIs, pl \in Ks, i \in Is, v \in Vs,
        im \in Ms, sa \in Ss, pa \in Ps}

\* the requests and contexts of the engine specification: the test
\* fixture, a request on which every default rule raises, a deletion of a
\* decision, and a code request with three high violations
EngineRequests ==
    Requests({"create"}, {"design"}, {None}, {AllPlain}, {"test-001"}, {V_1_0_0},
             {"arch-001"}, {<<"req-001">>}, {PathDesignMd})
    \cup Requests({"create"}, {"design"}, {None}, {AllPlain}, {"test-001"}, {V_1_0_0},
                  {ListValue}, {IntValue}, {IntValue})
    \cup Requests({"delete"}, {"decision"}, {"test-001"}, {AllPlain}, {"test-001"},
                  {V_1_0_0}, {"arch-001"}, {<<"req-001">>}, {PathDesignMd})
    \cup Requests({"create"}, {"code"}, {None}, {AllPlain}, {"test-001"}, {NoneSeq},
                  {None}, {<<"zz-404">>}, {PathElsewhere})

EngineSpecs ==
    {NoSpecs}
    \cup {Specs(a, t, r) : a \in ArchEntries({"approved"}, {V_1_0_0}, {None}),
                           t \in TargetEntries({"design"}, {"published"}),
                           r \in ReqEntries({"active"})}

\* the rules add_rule is called with: rules with an id of their own, and
\* one that takes the id of a default rule
CustomRules ==
    {Rule("CUSTOM-001", "CustomRule", o) :
        o \in {Raised, Returned(<<>>)}
              \cup {Returned(<<Violation("CUSTOM-001", sev, "custom")>>) : sev \in Severity}}
    \cup {Rule("DOC-001", "CustomRule", Returned(<<>>))}

RuleIds == {"DOC-001", "VER-001", "ARCH-001", "REQ-001", "CONST-001", "CUSTOM-001"}

\* the context of the test fixture (approved architecture, published
\* target, active requirement) and the one with every status changed
FixtureSpecs ==
    Specs(SpecEntry("arch-001", "architecture", "approved", V_1_0_0, None),
          SpecEntry("test-001", "design", "published", V_1_0_0, None),
          SpecEntry("req-001", "requirement", "active", V_1_0_0, None))

DraftSpecs ==
    Specs(SpecEntry("arch-001", "architecture", "draft", V_1_2_0, None),
          SpecEntry("test-001", "design", "approved", V_1_0_0, None),
          SpecEntry("req-001", "requirement", "deprecated", V_1_0_0, None))

AllSpecs ==
    {NoSpecs}
    \cup {Specs(a, t, r) :
            a \in ArchEntries({"approved", "draft"}, {V_1_0_0, V_1_2_0}, {None, "REQ-001"}),
            t \in TargetEntries({"design"}, {"draft", "approved", "published"}),
            r \in ReqEntries({"active", "deprecated"})}

\* requests for documents, every field varied
DocRequests ==
    Requests({"create", "update", "delete"},
             {"design", "architecture", "code"},
             {None, "test-001"},
             {AllPlain, AllPlain \ {"owners"}},
             {"test-001"},
             {V_1_0_0, V_2_1_3, V_1_0, NoneSeq},
             {"arch-001", "zz-404", ListValue, None},
             {<<"req-001">>, <<"req-001", "zz-404">>, <<>>, NoneSeq, IntValue},
             {PathDesignMd, PathDesignTxt, PathDesignBackslash, IntValue})

\* requests for audit-class entities
AuditRequests ==
    Requests({"create", "update", "delete"},
             {"decision", "audit_event", "agent_request"},
             {None, "test-001"},
             {AllPlain},
             {"test-001"},
             {V_1_0_0, NoneSeq},
             {"arch-001", ListValue, None},
             {<<"req-001">>, IntValue},
             {PathDesignMd, IntValue})

\* the requests whose verdict depends on the entries of the context
LinkedRequests ==
    Requests({"create", "update", "delete"},
             {"design", "architecture"},
             {"test-001"},
             {AllPlain},
             {"test-001", "other-002"},
             {V_1_0_0, V_2_1_3, V_1_0_0_rc1},
             {"arch-001", ListValue},
             {<<"req-001">>},
             {PathDesignMd})

\* updates of test-001 that carry the immutable properties, the same as or
\* other than the existing entry's
ImmutableRequests ==
    {Request("REQ-001", "update", "design", "test-001",
             Frontmatter(AllPlain, i, ca, cr, V_1_0_0, im, <<"req-001">>), PathDesignMd) :
        i \in {"test-001", "other-002", None},
        ca \in {"2024-01-01", "2025-06-01", None},
        cr \in {"alice", "bob", None},
        im \in {"arch-001", ListValue}}

\* the fixture context with an entry for test-001 that has, or has not, a
\* created_at and a creator
ImmutableSpecs ==
    {Specs(SpecEntry("arch-001", "architecture", "approved", V_1_0_0, None),
           [SpecEntry("test-001", "design", st, V_1_0_0, None)
               EXCEPT !.created_at = ca, !.creator = cr],
           SpecEntry("req-001", "requirement", "active", V_1_0_0, None)) :
        st \in {"draft", "published"},
        ca \in {"2024-01-01", None},
        cr \in {"alice", None}}

\* design and code requests with and without an id of their own, whose
\* implements names the architecture, the design or nothing in the context
ParentRequests ==
    {Request(id, "create", t, None,
             Frontmatter(AllPlain, "test-002", None, None, V_1_0_0, im, <<"req-001">>),
             PathDesignMd) :
        id \in {"REQ-001", None},
        t \in {"design", "code"},
        im \in {"arch-001", "test-001", "req-001", "zz-404"}}

\* contexts whose architecture implements nothing, or the request, and whose
\* entry test-001 is an approved spec of each type
ParentSpecs ==
    {Specs(a, t, r) :
        a \in ArchEntries({"approved"}, {V_1_0_0}, {None, "REQ-001"}),
        t \in TargetEntries({"design", "architecture", "code"}, {"approved"}),
        r \in ReqEntries({"approved", "active"})}

\* the (request, context["specs"]) pairs of the rules specification
RuleInputs ==
    (DocRequests \X {NoSpecs, FixtureSpecs, DraftSpecs})
    \cup (AuditRequests \X {NoSpecs, FixtureSpecs})
    \cup (LinkedRequests \X AllSpecs)
    \cup (ImmutableRequests \X ImmutableSpecs)
    \cup (ParentRequests \X ParentSpecs)

\* lists of violations of length 0..n with every severity at every place
RECURSIVE ViolationLists(_)
ViolationLists(n) ==
    IF n = 0 THEN {<<>>}
    ELSE LET shorter == ViolationLists(n - 1)
         IN  shorter \cup {Append(l, Violation("RULE", sev, "m")) :
                              l \in {x \in shorter : Len(x) = n - 1}, sev \in Severity}

\* the request dicts, results, decisions and drift lists handed to the
\* audit trail; the second request and decision leave optional keys out
AuditLogRequests ==
    {[id |-> "REQ-001", agent_id |-> "agent-1", target_id |-> "test-001",
      target_type |-> "design"],
     [id |-> "REQ-002", agent_id |-> "agent-2"]}

AuditLogResults ==
    {[status |-> "approved", violations |-> <<>>,
      metadata |-> [rules_executed |-> 5], processing_time_ms |-> 0],
     [status |-> "escalated",
      violations |-> <<Violation("CONST-001", "critical", "m")>>,
      metadata |-> <<>>, processing_time_ms |-> 0]}

AuditLogDecisions ==
    {[decision_type |-> "approved", request_id |-> "REQ-001", agent_id |-> "agent-1",
      rationale |-> "r", confidence |-> "1.0", impact_level |-> "medium"],
     [decision_type |-> "rejected"]}

AuditLogDrifts == {<<>>, <<[type |-> "undocumented_code", source |-> "code-001"]>>}

\* whether the collaborator raises on a call: only a configured one is called
StoreOutcomes == IF storage THEN BOOLEAN ELSE {FALSE}

\* version strings: every string over VersionAlphabet up to MaxVersionLen,
\* and the versions the tests name
VersionAlphabet == {"1", ".", "v", "\n"}

Strings(alphabet, n) == UNION {[1..k -> alphabet] : k \in 0..n}

V_0_0_1 == <<"0", ".", "0", ".", "1">>

V_1_0_0_0 == <<"1", ".", "0", ".", "0", ".", "0">>

VersionStrings ==
    Strings(VersionAlphabet, MaxVersionLen)
    \cup {NoneSeq, V_1_0_0, V_2_1_3, V_0_0_1, V_1_0_0_0, V_1_0_0_rc1}

\* the fixture request with each version, alone or implementing arch-001
VersionInputs ==
    Requests({"create"}, {"design"}, {None}, {AllPlain}, {"test-001"}, VersionStrings,
             {None, "arch-001"}, {<<"req-001">>}, {PathDesignMd})
    \X {FixtureSpecs}

\* what a graph query function does on each of the four queries
DesignAnswers ==
    {[exc |-> TRUE, rows |-> <<>>],
     [exc |-> FALSE, rows |-> <<>>],
     [exc |-> FALSE, rows |-> <<[design_id |-> "design-001", arch_id |-> "arch-001",
                                  design_modified |-> Time(1), arch_modified |-> Time(0)]>>],
     [exc |-> FALSE, rows |-> <<[design_id |-> "design-001", arch_id |-> "arch-001",
                                  design_modified |-> NoTime, arch_modified |-> Time(0)]>>]}

CodeAnswers ==
    {[exc |-> TRUE, rows |-> <<>>],
     [exc |-> FALSE, rows |-> <<>>],
     [exc |-> FALSE, rows |-> <<[code_id |-> "code-001", code_path |-> "src/test.py",
                                  created_at |-> Time(0)]>>]}

\* a requirement text of that length; NoText is a text of None
Text(n) == <<n>>

NoText == <<>>

ReqAnswers ==
    {[exc |-> TRUE, rows |-> <<>>],
     [exc |-> FALSE, rows |-> <<>>],
     [exc |-> FALSE, rows |-> <<[req_id |-> "req-001", priority |-> "high",
                                  text |-> Text(28), created_at |-> Time(0)],
                                 [req_id |-> "req-002", priority |-> "medium",
                                  text |-> Text(101), created_at |-> NoTime]>>],
     [exc |-> FALSE, rows |-> <<[req_id |-> "req-003", priority |-> None,
                                  text |-> NoText, created_at |-> NoTime]>>]}

VersionAnswers ==
    {[exc |-> TRUE, rows |-> <<>>],
     [exc |-> FALSE, rows |-> <<>>],
     [exc |-> FALSE, rows |-> <<[child_id |-> "design-001", parent_id |-> "arch-001",
                                  child_version |-> V_2_1_3,
                                  parent_version |-> V_1_0_0]>>]}

GraphQueries ==
    {NoGraphQuery}
    \cup {GraphQuery([design |-> d, code |-> c, req |-> r, version |-> v]) :
             d \in DesignAnswers, c \in CodeAnswers, r \in ReqAnswers, v \in VersionAnswers}

\* ---------------------------------------------------------- specifications
\* no request_approval and no orchestrator call in progress, an empty graph
InitFlows ==
    /\ approval = NoApproval
    /\ orch = NoOrch
    /\ graph = NoGraph

\* no AuditLogger call made yet
InitAudit ==
    /\ records = <<>>
    /\ mirror = <<>>
    /\ next_id = 1
    /\ audit_ret = NoReturn

\* no DriftDetector call made yet
InitDrift ==
    /\ drift_ret = NoReturn

InitEngine ==
    /\ rules = DefaultRules
    /\ pc = "idle"
    /\ request = NoRequest
    /\ context = NoContext
    /\ tasks = <<>>
    /\ result = NoResult
    /\ in_flight = {}
    /\ cancelled = {}
    /\ args_before = NoArgs
    /\ InitFlows

Init ==
    /\ InitEngine
    /\ now = 0
    /\ storage = FALSE
    /\ InitAudit
    /\ detector_graph_query = NoGraphQuery
    /\ InitDrift
    /\ graph_query = TRUE
    /\ sv_violations = <<>>
    /\ sv_status = None

Next ==
    \/ pc = "idle" /\ \E req \in EngineRequests, specs \in EngineSpecs :
                        validate_request_call(req, specs) /\ UNCHANGED flow_vars
    \/ rules_finish(in_flight)
    \/ validate_request_return
    \/ release /\ UNCHANGED flow_vars
    \/ \E rule \in CustomRules : add_rule(rule)
    \/ \E rule_id \in RuleIds : remove_rule(rule_id)
    \/ \E i \in 1..Len(rules), enabled \in BOOLEAN : set_enabled(i, enabled)

\* the engine with its rule registry: calls of validate_request, and between
\* them add_rule, remove_rule and rule.enabled assignments; the engine is
\* built with a graph query, as api/agent.py builds it
Spec == Init /\ [][Next]_vars

InitRules ==
    /\ InitEngine
    /\ now = 0
    /\ storage = FALSE
    /\ InitAudit
    /\ detector_graph_query = NoGraphQuery
    /\ InitDrift
    /\ graph_query \in BOOLEAN
    /\ sv_violations = <<>>
    /\ sv_status = None

NextRules ==
    \/ pc = "idle" /\ \E in \in RuleInputs :
                        validate_request_call(in[1], in[2]) /\ UNCHANGED flow_vars
    \/ rules_finish(in_flight)
    \/ validate_request_return
    \/ release /\ UNCHANGED flow_vars

\* the engine as constructed, with the five default rules, with or without
\* a graph query, over a wide set of requests and contexts
SpecRules == InitRules /\ [][NextRules]_vars

\* the requests of the engine specification and the fixture's design
\* without satisfies and without implements
TaskRequests ==
    EngineRequests
    \cup Requests({"create"}, {"design"}, {None}, {AllPlain}, {"test-001"}, {V_1_0_0},
                  {"arch-001", None}, {NoneSeq}, {PathDesignMd})

NextTasks ==
    \/ pc = "idle" /\ \E req \in TaskRequests, specs \in EngineSpecs :
                        validate_request_call(req, specs) /\ UNCHANGED flow_vars
    \/ \E i \in in_flight : rules_finish({i})
    \/ \E i \in in_flight : cancel_task(i)
    \/ abandon
    \/ validate_request_return
    \/ release /\ UNCHANGED flow_vars

\* one call of validate_request at a time on the engine as constructed, its
\* rule evaluations finishing in any order, any of them cancelled while in
\* flight, and the call abandoned by its caller at any moment of its await
SpecTasks == Init /\ [][NextTasks]_vars

\* the requests the API model admits (action and target_type are Literals)
ApprovalActions == {"create", "modify", "delete"}

ApprovalTargetTypes == {"architecture", "design", "code"}

RequestIds == {"req-0a1", "req-7f3"}

NextApproval ==
    \/ \E request_id \in RequestIds, action \in ApprovalActions,
          target_type \in ApprovalTargetTypes, target_id \in {None, "test-001"} :
            approval_submit(request_id, "agent-1", action, target_type, target_id)
    \/ approval_validate
    \/ rules_finish(in_flight)
    \/ validate_request_return
    \/ approval_respond
    \/ approval_audit
    \/ approval_release
    \/ approval.state = "idle" /\ \E i \in 1..Len(rules), enabled \in BOOLEAN :
                                     set_enabled(i, enabled)

\* the request_approval endpoint, one request at a time, on the engine and
\* the audit trail api/agent.py builds; between requests rules of the
\* shared engine are switched off and on
SpecApproval == Init /\ [][NextApproval]_vars

PathArchitectureMd == <<"d", "o", "c", "s", "/", "a", "r", "c", "h", "i", "t", "e", "c", "t", "u", "r", "e", "/", "a", ".", "m", "d">>

\* the files of the orchestrator specification: one that is not processed,
\* a complete architecture document, one with frontmatter fields missing,
\* one without id, one filed elsewhere, and the design document of the test
\* fixture (whose architecture the empty context does not hold)
Files ==
    {ProcessResult(FALSE, NoDocument)}
    \cup {ProcessResult(TRUE, ParsedDocument("architecture",
               Frontmatter(pl, i, None, None, V_1_0_0, None, NoneSeq), pa)) :
            pl \in {AllPlain, {}}, i \in {"arch-001", None},
            pa \in {PathArchitectureMd, PathElsewhere}}
    \cup {ProcessResult(TRUE, ParsedDocument("design",
               Frontmatter(AllPlain, "test-001", None, None, V_1_0_0, "arch-001",
                           <<"req-001">>), PathDesignMd))}

HashIds == {"9c1f", "51be"}

NextOrchestrator ==
    \/ \E op \in {"process_document", "update_document"}, file \in Files,
          skip_validation \in BOOLEAN, force_update \in BOOLEAN,
          request_id \in HashIds, merge_raises \in BOOLEAN :
            orchestrate_unvalidated(op, file, skip_validation, force_update,
                                    request_id, merge_raises)
    \/ \E op \in {"process_document", "update_document"}, file \in Files,
          force_update \in BOOLEAN, request_id \in HashIds :
            orchestrate_call(op, file, force_update, request_id)
    \/ rules_finish(in_flight)
    \/ validate_request_return
    \/ \E merge_raises \in BOOLEAN, audit_raises \in BOOLEAN :
            orchestrate_resume(merge_raises, audit_raises)
    \/ orchestrate_release

\* process_document and update_document, one call at a time, on the engine
\* and a graph database that may fail
SpecOrchestrator == Init /\ [][NextOrchestrator]_vars

InitStatus ==
    /\ InitEngine
    /\ now = 0
    /\ storage = FALSE
    /\ InitAudit
    /\ detector_graph_query = NoGraphQuery
    /\ InitDrift
    /\ graph_query = FALSE
    /\ sv_violations \in ViolationLists(MaxViolations)
    /\ sv_status = None

NextStatus == determine_status_call

\* _determine_status alone, over every list of violations up to MaxViolations
SpecStatus == InitStatus /\ [][NextStatus]_vars

InitAuditLogger ==
    /\ InitEngine
    /\ graph_query = FALSE
    /\ sv_violations = <<>>
    /\ sv_status = None
    /\ now = 0
    /\ storage \in BOOLEAN
    /\ InitAudit
    /\ detector_graph_query = NoGraphQuery
    /\ InitDrift

\* one call of the AuditLogger, made when the last one has been taken
AuditLoggerCall ==
    \/ \E req \in AuditLogRequests, res \in AuditLogResults, store_raises \in StoreOutcomes :
          log_validation(req, res, store_raises)
    \/ \E decision \in AuditLogDecisions, store_raises \in StoreOutcomes :
          log_decision(decision, store_raises)
    \/ \E violations \in AuditLogDrifts, store_raises \in StoreOutcomes :
          log_drift_detection(violations, store_raises)
    \/ \E n \in 1..MaxRecords : get_record_call(AuditId(n))
    \/ \E request_id \in {"REQ-001", "REQ-002"} : get_records_by_request_call(request_id)
    \/ \E agent_id \in {"agent-1"}, start_time \in {NoTime, Time(1)}, end_time \in {NoTime, Time(0)} :
          get_records_by_agent_call(agent_id, start_time, end_time)
    \/ \E limit \in 0..(MaxRecords + 1), event_type \in {None, "decision"} :
          get_recent_records_call(limit, event_type)
    \/ get_statistics_call

NextAuditLogger ==
    \/ tick
    \/ audit_ret.op = None /\ AuditLoggerCall
    \/ audit_release

\* an AuditLogger with or without a durable collaborator: log_* calls made
\* for different requests in any order as the clock moves on, and the read
\* accessors between them
SpecAuditLogger == InitAuditLogger /\ [][NextAuditLogger]_vars

NextVersions ==
    \/ pc = "idle" /\ \E in \in VersionInputs :
                        validate_request_call(in[1], in[2]) /\ UNCHANGED flow_vars
    \/ rules_finish(in_flight)
    \/ validate_request_return
    \/ release /\ UNCHANGED flow_vars

\* the engine as constructed, with or without a graph query, over requests
\* that differ in their version string
SpecVersions == InitRules /\ [][NextVersions]_vars

InitDriftDetector ==
    /\ InitEngine
    /\ graph_query = FALSE
    /\ sv_violations = <<>>
    /\ sv_status = None
    /\ now = 0
    /\ storage = FALSE
    /\ InitAudit
    /\ detector_graph_query \in GraphQueries
    /\ InitDrift

NextDriftDetector ==
    \/ tick
    \/ detect_design_drift_call
    \/ detect_undocumented_code_call
    \/ detect_uncovered_requirements_call
    \/ detect_version_mismatches_call
    \/ detect_all_drift_call
    \/ get_drift_summary_call
    \/ drift_release

\* a DriftDetector built without a graph query function, or with one that
\* answers or raises on each query, and its methods called as time passes
SpecDriftDetector == InitDriftDetector /\ [][NextDriftDetector]_vars

\* ----------------------------------------------------------------- claims
\* the call has returned a ValidationResult
Returns == pc = "done" /\ ~result.raised

\* what the i-th task of the call did
TaskOutcome(i) == Rule_validate(tasks[i], request, context)

HasViolation(violations, rule, severity) ==
    \E i \in 1..Len(violations) :
        violations[i].rule = rule /\ violations[i].severity = severity

\* C1: whatever the request, the context and the registered rules, a
\* returned ValidationResult has status approved exactly when its violations
\* list is empty.
C1_ApprovedIffNoViolations ==
    Returns => (result.status = "approved" <=> result.violations = <<>>)

\* a call of the default rules and a custom rule returned violations of low
\* or medium severity only, and was not approved
C1_Witness ==
    /\ Returns
    /\ result.violations # <<>>
    /\ \A i \in 1..Len(result.violations) :
          result.violations[i].severity \in {"low", "medium"}
    /\ result.status = "revision_required"

\* C2: a violation list holding at least one critical violation gives status
\* escalated, whatever else it holds and in whatever order.
C2_CriticalDominance ==
    (sv_status # None /\ \E i \in 1..Len(sv_violations) :
                            sv_violations[i].severity = "critical")
        => sv_status = "escalated"

\* three high violations ahead of one critical one were escalated
C2_Witness ==
    /\ sv_status = "escalated"
    /\ Len(sv_violations) = 4
    /\ \A i \in 1..3 : sv_violations[i].severity = "high"
    /\ sv_violations[4].severity = "critical"

\* C3: a non-empty violation list with no critical violation gives status
\* revision_required, with three or more high violations as with fewer.
C3_RevisionRequired ==
    (/\ sv_status # None
     /\ sv_violations # <<>>
     /\ \A i \in 1..Len(sv_violations) : sv_violations[i].severity # "critical")
        => sv_status = "revision_required"

\* three high violations and a low one required revision
C3_Witness ==
    /\ sv_status = "revision_required"
    /\ Cardinality({i \in 1..Len(sv_violations) : sv_violations[i].severity = "high"}) = 3
    /\ \E i \in 1..Len(sv_violations) : sv_violations[i].severity = "low"

\* C4: no call of validate_request returns status rejected: every returned
\* status is approved, escalated or revision_required.
C4_NeverRejected ==
    Returns => result.status \in {"approved", "escalated", "revision_required"}

\* a call returned three high violations and no critical one
C4_Witness ==
    /\ Returns
    /\ Cardinality({i \in 1..Len(result.violations) :
                      result.violations[i].severity = "high"}) >= 3
    /\ ~\E i \in 1..Len(result.violations) : result.violations[i].severity = "critical"
    /\ result.status = "revision_required"

\* how often v occurs in a list
Occurrences(violations, v) ==
    Cardinality({i \in 1..Len(violations) : violations[i] = v})

\* how often v occurs in the lists the tasks 1..n returned
RECURSIVE ReturnedOccurrences(_, _)
ReturnedOccurrences(n, v) ==
    IF n = 0 THEN 0
    ELSE ReturnedOccurrences(n - 1, v)
         + (IF TaskOutcome(n).exc THEN 0 ELSE Occurrences(TaskOutcome(n).violations, v))

\* C5: when an enabled rule raises, the call still returns a result, and
\* the result holds exactly the violations the rules that did not raise
\* returned, each as often as it was returned.
C5_RaisingRuleIsolated ==
    (pc = "done" /\ \E i \in 1..Len(tasks) : TaskOutcome(i).exc)
        => /\ ~result.raised
           /\ \A v \in {result.violations[k] : k \in 1..Len(result.violations)}
                       \cup UNION {{TaskOutcome(i).violations[k] :
                                       k \in 1..Len(TaskOutcome(i).violations)} :
                                   i \in 1..Len(tasks)} :
                 Occurrences(result.violations, v) = ReturnedOccurrences(Len(tasks), v)

\* a default rule raised and another rule's violation is in the result
C5_Witness ==
    /\ Returns
    /\ \E i \in 1..Len(tasks) : TaskOutcome(i).exc /\ tasks[i].impl # "CustomRule"
    /\ \E i \in 1..Len(tasks) : ~TaskOutcome(i).exc /\ TaskOutcome(i).violations # <<>>
    /\ result.violations # <<>>

\* C6: validate_request never raises; when every enabled rule raises, or no
\* rule is enabled or registered, it returns approved with no violations.
C6_NeverRaises ==
    pc = "done"
        => /\ ~result.raised
           /\ (\A i \in 1..Len(tasks) : TaskOutcome(i).exc)
                 => (result.status = "approved" /\ result.violations = <<>>)

\* all five default rules ran and every one of them raised
C6_Witness ==
    /\ Returns
    /\ Len(tasks) = 5
    /\ \A i \in 1..Len(tasks) : TaskOutcome(i).exc
    /\ result.status = "approved"

\* the context has an entry under id
Resolves(id) == id \in DOMAIN context.current_specs

\* C7: an update request whose target_id resolves to a spec with status
\* published or approved always yields a critical CONST-001 violation and
\* status escalated, whatever the rest of the request contains.
C7_ProtectedUpdateEscalated ==
    (/\ pc = "done"
     /\ request.action = "update"
     /\ Resolves(request.target_id)
     /\ context.current_specs[request.target_id].status \in {"published", "approved"})
        => /\ ~result.raised
           /\ result.status = "escalated"
           /\ HasViolation(result.violations, "CONST-001", "critical")

\* C8: a delete request whose target_type is decision, audit_event or
\* agent_request always yields a critical CONST-001 violation and status
\* escalated, whatever its content, target_id and context.
C8_AuditDeletionEscalated ==
    (/\ pc = "done"
     /\ request.action = "delete"
     /\ request.target_type \in {"decision", "audit_event", "agent_request"})
        => /\ ~result.raised
           /\ result.status = "escalated"
           /\ HasViolation(result.violations, "CONST-001", "critical")

\* the deletion of an agent_request was escalated although another rule
\* raised on the same request
C8_Witness ==
    /\ Returns
    /\ request.action = "delete"
    /\ request.target_type = "agent_request"
    /\ \E i \in 1..Len(tasks) : TaskOutcome(i).exc
    /\ result.status = "escalated"
    /\ HasViolation(result.violations, "CONST-001", "critical")

\* C9: a design request whose frontmatter has no implements, or names an id
\* that is not in the context, or names a spec whose status is not approved,
\* gets a critical ARCH-001 violation and status escalated.
C9_DesignNeedsApprovedArchitecture ==
    LET implements == GetImplements(request.content.frontmatter)
    IN  (/\ pc = "done"
         /\ request.target_type = "design"
         /\ \/ implements = None
            \/ Hashable(implements) /\ ~Resolves(implements)
            \/ Hashable(implements) /\ Resolves(implements)
               /\ context.current_specs[implements].status # "approved")
            => /\ ~result.raised
               /\ result.status = "escalated"
               /\ Len(result.violations) >= 1
               /\ HasViolation(result.violations, "ARCH-001", "critical")

\* a design implementing a draft architecture was escalated by ARCH-001 alone
C9_Witness ==
    /\ Returns
    /\ request.target_type = "design"
    /\ GetImplements(request.content.frontmatter) = "arch-001"
    /\ Resolves("arch-001")
    /\ context.current_specs["arch-001"].status = "draft"
    /\ result.status = "escalated"
    /\ \A i \in 1..Len(result.violations) :
          result.violations[i].severity = "critical" => result.violations[i].rule = "ARCH-001"

\* the request of C10: a design create with every required key, an x.y.z
\* version, a path under docs/design/, an implements that resolves to an
\* approved architecture and a satisfies list of active requirements
C10_ValidDesign ==
    LET frontmatter == request.content.frontmatter
        implements == frontmatter.implements
    IN  /\ request.action = "create"
        /\ request.target_type = "design"
        /\ {"doc", "component", "id", "version", "status", "owners"} \subseteq frontmatter.keys
        /\ VersionCompatibilityRule_valid_semantic_version(frontmatter.version)
        /\ StartsWith(request.content.path,
                      <<"d", "o", "c", "s", "/", "d", "e", "s", "i", "g", "n", "/">>)
        /\ "implements" \in frontmatter.keys
        /\ Hashable(implements) /\ Resolves(implements)
        /\ context.current_specs[implements].doc_type = "architecture"
        /\ context.current_specs[implements].status = "approved"
        /\ "satisfies" \in frontmatter.keys
        /\ frontmatter.satisfies # IntValue
        /\ \A k \in 1..Len(frontmatter.satisfies) :
              /\ Resolves(frontmatter.satisfies[k])
              /\ context.current_specs[frontmatter.satisfies[k]].status = "active"

Major(version) == ToInt(Split(version, ".")[1])

Minor(version) == ToInt(Split(version, ".")[2])

\* what C10 leaves out: the path has `.md` after docs/design/, the satisfies
\* list is not empty, the architecture does not implement the request's own
\* id, and, when the engine has a graph query and the architecture has an
\* x.y.z version, the request's major is the same and its minor not smaller
C10_Amendment ==
    LET frontmatter == request.content.frontmatter
        parent == context.current_specs[frontmatter.implements]
    IN  /\ Contains(request.content.path, <<".", "m", "d">>, 13)
        /\ frontmatter.satisfies # <<>>
        /\ parent.implements # request.id
        /\ (context.graph_query /\ parent.version # NoneSeq)
              => /\ Major(frontmatter.version) = Major(parent.version)
                 /\ Minor(frontmatter.version) >= Minor(parent.version)

LogOps == {"log_validation", "log_decision", "log_drift_detection"}

ReadOps == {"get_record", "get_records_by_request", "get_records_by_agent",
            "get_recent_records", "get_statistics"}

\* C11: no AuditLogger call shortens, reorders or changes the log: the
\* records held before a step are, after it, at the same positions with the
\* same fields; a log_* call lengthens the log by exactly one record and
\* every other call leaves it as it was.
C11_AppendOnly ==
    [][/\ Len(records') >= Len(records)
       /\ SubSeq(records', 1, Len(records)) = records
       /\ (audit_ret.op = None /\ audit_ret'.op \in LogOps)
             => Len(records') = Len(records) + 1
       /\ ~(audit_ret.op = None /\ audit_ret'.op \in LogOps)
             => records' = records]_vars

\* two records are held and a read accessor has just returned
C11_Witness ==
    /\ Len(records) = 2
    /\ audit_ret.op \in ReadOps

\* the collaborator did not store the newest record
StoreFailed ==
    /\ storage
    /\ records # <<>>
    /\ \A i \in 1..Len(mirror) : mirror[i].id # records[Len(records)].id

\* C12: when the durable collaborator raises in a log_* call, the call does
\* not raise, returns the id of the new record, and that record is in the
\* in-process log.
C12_StorageFaultContained ==
    (storage /\ audit_ret.op \in LogOps)
        => /\ ~audit_ret.raised
           /\ records # <<>>
           /\ audit_ret.value = records[Len(records)].id
           /\ get_record(records, audit_ret.value) = records[Len(records)]

\* a log_* call has returned although the collaborator raised in it
C12_Witness ==
    /\ audit_ret.op \in LogOps
    /\ ~audit_ret.raised
    /\ StoreFailed

C14_RecentRecords ==
    (audit_ret.op = "get_recent_records" /\ audit_ret.args[1] >= 0
        /\ audit_ret.args[2] = None)
    => LET k == audit_ret.args[1]
           got == audit_ret.value
           got_ids == {got[i].id : i \in 1..Len(got)}
       IN  /\ Len(got) = (IF k < Len(records) THEN k ELSE Len(records))
           /\ Cardinality(got_ids) = Len(got)
           /\ \A i \in 1..Len(got) : \E j \in 1..Len(records) : got[i] = records[j]
           /\ \A i, j \in 1..Len(got) :
                 i < j => got[i].timestamp >= got[j].timestamp
           /\ \A j \in 1..Len(records) :
                 records[j].id \notin got_ids
                    => \A i \in 1..Len(got) : records[j].timestamp <= got[i].timestamp

\* the later of two records was asked for, and only it was returned
C14_Witness ==
    /\ audit_ret.op = "get_recent_records"
    /\ audit_ret.args = <<1, None>>
    /\ Len(records) = 2
    /\ records[1].timestamp < records[2].timestamp
    /\ audit_ret.value = <<records[2]>>

\* ------------------------------------------------- claims: version rule
\* what the Version Compatibility rule does on the request of the call
VersionOutcome == VersionCompatibilityRule_validate(request, context)

\* digits.digits.digits
IsThreePartVersion(version) ==
    LET parts == Split(version, ".")
    IN  /\ Len(parts) = 3
        /\ \A i \in 1..3 : /\ parts[i] # <<>>
                           /\ \A j \in 1..Len(parts[i]) : parts[i][j] \in Digits

\* the request declares an implements whose version current_specs resolves
ParentVersionResolvable ==
    LET frontmatter == request.content.frontmatter
    IN  /\ "implements" \in frontmatter.keys
        /\ frontmatter.implements # "" /\ Hashable(frontmatter.implements)
        /\ Resolves(frontmatter.implements)
        /\ IsThreePartVersion(context.current_specs[frontmatter.implements].version)
        /\ IsThreePartVersion(GetVersion(frontmatter))

\* C15: when the request declares implements and the parent's version is
\* in current_specs, the Version Compatibility rule emits a high VER-001
\* violation exactly when the majors differ or the child's minor is lower
\* than the parent's, with or without a graph query function.
C15_ParentVersionChecked ==
    (pc = "done" /\ ParentVersionResolvable)
        => LET child == request.content.frontmatter.version
               parent == context.current_specs[request.content.frontmatter.implements].version
           IN  /\ ~VersionOutcome.exc
               /\ HasViolation(VersionOutcome.violations, "VER-001", "high")
                     <=> (Major(child) # Major(parent) \/ Minor(child) < Minor(parent))

\* C16: the Version Compatibility rule accepts exactly the versions of the
\* form digits.digits.digits; for an absent or empty version it emits a high
\* VER-001 violation and for any other version a critical one.
C16_VersionFormat ==
    (pc = "done" /\ ~VersionOutcome.exc)
        => LET version == GetVersion(request.content.frontmatter)
           IN  IF IsThreePartVersion(version)
               THEN /\ ~HasViolation(VersionOutcome.violations, "VER-001", "critical")
                    /\ \A i \in 1..Len(VersionOutcome.violations) :
                          VersionOutcome.violations[i].message # "version_required"
               ELSE IF version = NoneSeq \/ version = <<>>
               THEN VersionOutcome.violations
                       = <<Violation("VER-001", "high", "version_required")>>
               ELSE HasViolation(VersionOutcome.violations, "VER-001", "critical")

\* --------------------------------- claims: coverage and constitution rules
MissingSatisfies == Violation("REQ-001", "medium", "should_reference_requirements")

\* a design or code request without satisfies on which no rule but
\* Requirement Coverage finds anything
OnlyMissingSatisfies ==
    /\ request.target_type \in {"design", "code"}
    /\ "satisfies" \notin request.content.frontmatter.keys
    /\ \E i \in 1..Len(tasks) : tasks[i].id = "REQ-001"
    /\ \A i \in 1..Len(tasks) :
          tasks[i].id # "REQ-001" => TaskOutcome(i).violations = <<>>

\* C17 as claimed: a design or code request whose only finding is the
\* missing satisfies is not kept from approval by it.
C17_MissingSatisfiesAdvisory ==
    (Returns /\ OnlyMissingSatisfies) => result.status = "approved"

\* C17, amended: such a request carries the one medium REQ-001 violation and
\* is sent back for revision; it is neither escalated nor approved.
C17_MissingSatisfiesRevision ==
    (Returns /\ OnlyMissingSatisfies)
        => /\ result.violations = <<MissingSatisfies>>
           /\ result.status = "revision_required"

\* a design without satisfies, otherwise in order, has been validated
C17_Witness ==
    /\ Returns
    /\ OnlyMissingSatisfies
    /\ request.target_type = "design"
    /\ request.action = "create"

\* what the Constitution Compliance rule does on the request of the call
ConstitutionOutcome == ConstitutionComplianceRule_validate(request, context)

\* the immutable properties the request's frontmatter gives another value
\* than the existing spec has
ChangedImmutable ==
    LET frontmatter == request.content.frontmatter
        existing == context.current_specs[request.target_id]
    IN  {prop \in {"id", "created_at", "creator"} :
            /\ prop \in frontmatter.keys
            /\ existing[prop] # None
            /\ frontmatter[prop] # existing[prop]}

\* C18: for an update whose target_id resolves in current_specs, the
\* Constitution Compliance rule emits one critical CONST-001 violation for
\* each immutable property whose value the request changes, and none for
\* the others.
C18_ImmutableProperties ==
    (pc = "done" /\ request.action = "update" /\ Resolves(request.target_id))
        => Occurrences(ConstitutionOutcome.violations,
                       Violation("CONST-001", "critical", "immutable_property"))
              = Cardinality(ChangedImmutable)

\* --------------------------------------------------- claims: drift detector
DetectOps == {"detect_design_drift", "detect_undocumented_code",
              "detect_uncovered_requirements", "detect_version_mismatches",
              "detect_all_drift"}

\* C19: a DriftDetector without a graph query function returns an empty
\* list from each detection method and from detect_all_drift, reports zero
\* total violations in get_drift_summary, and never raises.
C19_NoGraphQueryDegrades ==
    (detector_graph_query = NoGraphQuery /\ drift_ret.op # None)
        => /\ ~drift_ret.raised
           /\ drift_ret.op \in DetectOps => drift_ret.value = <<>>
           /\ drift_ret.op = "get_drift_summary" => drift_ret.value.total_violations = 0

\* detect_all_drift has returned on a detector without a graph query
C19_Witness ==
    /\ detector_graph_query = NoGraphQuery
    /\ drift_ret.op = "detect_all_drift"
    /\ ~drift_ret.raised

\* C20: what detect_all_drift returns is what detect_design_drift,
\* detect_undocumented_code and detect_uncovered_requirements return at the
\* same time, in that order, and holds no version_mismatch violation.
C20_AllDriftIsThreeDetections ==
    (drift_ret.op = "detect_all_drift" /\ ~drift_ret.raised)
        => /\ drift_ret.value =
                 detect_design_drift(detector_graph_query, drift_ret.args[1]).violations
                 \o detect_undocumented_code(detector_graph_query, drift_ret.args[1]).violations
                 \o detect_uncovered_requirements(detector_graph_query, drift_ret.args[1]).violations
           /\ \A i \in 1..Len(drift_ret.value) :
                 drift_ret.value[i].type # "version_mismatch"

\* detect_all_drift has returned violations on a graph on which
\* detect_version_mismatches reports one
C20_Witness ==
    /\ drift_ret.op = "detect_all_drift"
    /\ ~drift_ret.raised
    /\ drift_ret.value # <<>>
    /\ detect_version_mismatches(detector_graph_query, drift_ret.args[1]).violations # <<>>

\* ------------------------------------------- claims: architecture alignment
\* what the Architecture Alignment rule does on the request of the call
ArchitectureOutcome == ArchitectureAlignmentRule_validate(request, context)

\* the request's implements names an entry of current_specs that is an
\* architecture with status approved
ImplementsApprovedArchitecture ==
    LET implements == GetImplements(request.content.frontmatter)
    IN  /\ implements # None /\ Hashable(implements)
        /\ Resolves(implements)
        /\ context.current_specs[implements].doc_type = "architecture"
        /\ context.current_specs[implements].status = "approved"

DesignBranchMessages == {"design_must_reference", "architecture_not_found",
                         "architecture_not_approved"}

\* C26: on a design request the Architecture Alignment rule emits none of
\* its critical design violations only if implements names an approved
\* architecture of current_specs; an implements that resolves to an approved
\* spec of another type gets a critical ARCH-001 violation.
C26_ApprovedArchitectureOnly ==
    (pc = "done" /\ request.target_type = "design" /\ ~ArchitectureOutcome.exc)
        => \/ ImplementsApprovedArchitecture
           \/ \E i \in 1..Len(ArchitectureOutcome.violations) :
                 /\ ArchitectureOutcome.violations[i].severity = "critical"
                 /\ ArchitectureOutcome.violations[i].message \in DesignBranchMessages

Circular == Violation("ARCH-001", "critical", "circular_dependency")

\* C30: the Architecture Alignment rule reports a circular dependency only
\* when the parent named by implements is in current_specs and its own
\* implements is the request's id; never for a request without an id, nor
\* for an implements that names no entry of current_specs.
C30_CircularOnlyWhenParentPointsBack ==
    (pc = "done" /\ ~ArchitectureOutcome.exc
     /\ Occurrences(ArchitectureOutcome.violations, Circular) > 0)
        => LET implements == GetImplements(request.content.frontmatter)
           IN  /\ request.id # None
               /\ Resolves(implements)
               /\ context.current_specs[implements].implements = request.id

\* ---------------------------------------------------------- claims: engine
\* C22: during and after validate_request the request and
\* context.current_specs are what the caller passed, whatever the request
\* and the context and in whatever order the five default rules, which
\* share them, are evaluated.
C22_ArgumentsUnchanged ==
    pc \in {"validating", "done"}
        => /\ request = args_before.request
           /\ context.current_specs = args_before.current_specs

\* all five default rules have been evaluated on a design request that has
\* no satisfies, and the call has returned
C22_Witness ==
    /\ Returns
    /\ Len(tasks) = 5 /\ in_flight = {} /\ cancelled = {}
    /\ request.target_type = "design"
    /\ "satisfies" \notin request.content.frontmatter.keys
    /\ context.current_specs # <<>>

\* C23: a ValidationResult is returned only when every task of the call has
\* finished, and it holds the violations of all of them; when a task was
\* cancelled in flight or the call was abandoned, the call raises and no
\* ValidationResult is returned.
C23_NoPartialResult ==
    pc = "done"
        => /\ in_flight = {}
           /\ cancelled # {} => result.raised
           /\ ~result.raised
                 => result.violations
                       = collect_violations([i \in 1..Len(tasks) |-> TaskOutcome(i)])

\* a task was cancelled after another one had finished with violations, and
\* the call raised
C23_Witness ==
    /\ pc = "done"
    /\ result.raised
    /\ cancelled # {} /\ cancelled # 1..Len(tasks)
    /\ \E i \in 1..Len(tasks) :
          i \notin cancelled /\ ~TaskOutcome(i).exc /\ TaskOutcome(i).violations # <<>>

\* C24: metadata.rules_executed of a returned ValidationResult is the
\* number of rules scheduled for the call, that is, of the enabled rules.
C24_RulesExecutedIsScheduled ==
    Returns => result.rules_executed = Len(tasks)

\* the elements of seq at the positions in S, in their order
Keep(seq, S) ==
    [i \in 1..Cardinality(S) |->
        seq[CHOOSE j \in S : Cardinality({k \in S : k <= j}) = i]]

\* C25: get_rule(id) returns a rule with that id exactly when one is
\* registered; a remove_rule(id) step leaves the rules with another id, in
\* their order, and nothing else; and a call of validate_request evaluates
\* the registered rules that are enabled, in their order.
C25_Registry ==
    /\ [](\A id \in RuleIds :
            /\ get_rule(rules, id) # <<>> <=> \E i \in 1..Len(rules) : rules[i].id = id
            /\ get_rule(rules, id) # <<>> => get_rule(rules, id)[1].id = id)
    /\ [](pc # "idle" => tasks = Keep(rules, {j \in 1..Len(rules) : rules[j].enabled}))
    /\ [][\A id \in RuleIds :
            remove_rule(id) => rules' = Keep(rules, {j \in 1..Len(rules) : rules[j].id # id})]_vars

\* after a rule with the id of a default rule was added, both were removed,
\* another rule was disabled, and a call evaluated the three that remain
C25_Witness ==
    /\ pc = "done"
    /\ Len(rules) = 4
    /\ get_rule(rules, "DOC-001") = <<>>
    /\ get_rule(rules, "VER-001") # <<>> /\ ~get_rule(rules, "VER-001")[1].enabled
    /\ Len(tasks) = 3

\* --------------------------------------------------- claims: approval flow
\* the path docs/<target_type>/<request id>.md
DocPath(target_type, request_id) == <<"docs/", target_type, "/", request_id, ".md">>

\* C21: a request goes from submitted to validating and from there to
\* exactly one of approved, revision_required and escalated, where it
\* stays; the response's approved_location is docs/<target_type>/<request
\* id>.md when the verdict is approved and None for the other verdicts.
C21_ApprovalFlow ==
    /\ [][approval.state' # approval.state
            => /\ approval.state = "submitted" => approval'.state = "validating"
               /\ approval'.state = "validating" => approval.state = "submitted"
               /\ approval.state = "validating" => approval'.state \in Verdicts
               /\ approval'.state \in Verdicts => approval.state = "validating"
               /\ approval.state \in Verdicts => approval'.state = "idle"]_vars
    /\ [](approval.state \in Verdicts
            => /\ approval.response.status = approval.state
               /\ approval.response.approved_location =
                     IF approval.state = "approved"
                     THEN DocPath(approval.request.target_type, approval.request.id)
                     ELSE NoLocation)

\* a design request was approved and has its location
C21_Witness ==
    /\ approval.state = "approved"
    /\ approval.request.target_type = "design"
    /\ approval.response.approved_location # NoLocation

\* C29: once request_approval has logged a verdict, log_request has not
\* raised and the in-process log ends with one validation record that
\* carries the request's id and agent id and the response status as its
\* decision.
C29_VerdictAudited ==
    (approval.state \in Verdicts /\ approval.http # None)
        => /\ approval.http = "200"
           /\ records # <<>>
           /\ LET record == records[Len(records)]
              IN  /\ record.event_type = "validation"
                  /\ record.request_id = approval.request.id
                  /\ record.agent_id = approval.request.agent_id
                  /\ record.decision = approval.response.status

\* ---------------------------------------------------- claims: orchestrator
\* C27: a call of process_document with skip_validation and force_update
\* false, or of update_document with skip_validation false, that wrote the
\* document to the graph had the verdict approved from validate_request;
\* and the document nodes of the graph change only in a call that wrote.
C27_StoredOnlyIfApproved ==
    /\ [](orch.stored /\ ~orch.skip_validation /\ ~orch.force_update
            => orch.status = "approved")
    /\ [][graph'.documents # graph.documents => orch'.stored]_vars

\* a validated call stored its document after an earlier one had been
\* turned away with an audit record
C27_Witness ==
    /\ orch.pc = "returned"
    /\ ~orch.skip_validation /\ ~orch.force_update
    /\ orch.status = "approved" /\ orch.stored
    /\ orch.result.success
    /\ graph.audits \ {orch.request.id} # {}

\* C28: the OrchestrationResult a call returns reports success exactly
\* when the call stored the document, whatever became of the audit record.
C28_SuccessIffStored ==
    orch.pc = "returned" => (orch.result.success <=> orch.stored)

====
